---- MODULE Spec2Model ----
(***************************************************************************)
(* State-machine model of the PotensiaAI generation pipeline               *)
(* (ai_tools/writer/generator.py, ai_tools/writer/topic_refiner.py) and of *)
(* the provider adapters (ai_clients/openai_client.py,                     *)
(* ai_clients/anthropic_client.py).                                        *)
(*                                                                         *)
(* Text is a sequence of one-character strings.  An Optional[str] is a     *)
(* record [some, val]; None is [some |-> FALSE, val |-> <<>>].             *)
(***************************************************************************)
EXTENDS Integers, Sequences, FiniteSets, TLC

\* ------------------------------------------------------------------ bounds
\* Longest text a provider returns or a caller passes in.
MaxLen == 2
\* Longest text of one content block of an Anthropic response.
MaxBlockLen == 1
\* Most content blocks in one Anthropic response.
MaxBlocks == 2
\* Most messages in one CompletionRequest.
MaxMsgs == 2
\* Most tokens (braces, prose, whitespace, JSON objects) in one validator reply.
MaxReplyLen == 3
\* Most pieces (letters, blanks, markdown marks, code fences) in one content.
MaxPieces == 4
\* Most pieces (a word, a blank, a backtick, an FAQ heading) in one fixer reply.
MaxFixPieces == 2

\* ------------------------------------------------------------------- text
Chars == {" ", "a", "\""}
Whitespace == {" "}
Newline == "\n"
\* What str.split and str.strip take as blank in a text of several lines.
Blanks == Whitespace \cup {Newline}
QuoteChars == {"\""}

Texts == UNION {[1..n -> Chars] : n \in 0..MaxLen}
BlockTexts == UNION {[1..n -> Chars] : n \in 0..MaxBlockLen}

RECURSIVE LStrip(_)
LStrip(s) == IF s # <<>> /\ Head(s) \in Whitespace THEN LStrip(Tail(s)) ELSE s

RECURSIVE RStrip(_)
RStrip(s) ==
    IF s # <<>> /\ s[Len(s)] \in Whitespace
    THEN RStrip(SubSeq(s, 1, Len(s) - 1))
    ELSE s

\* str.strip()
Strip(s) == RStrip(LStrip(s))

\* .replace('"', "").replace("'", "")
RemoveQuotes(s) == SelectSeq(s, LAMBDA c : c \notin QuoteChars)

None == [some |-> FALSE, val |-> <<>>]
Some(s) == [some |-> TRUE, val |-> s]
\* Python truthiness of an Optional[str]
Truthy(o) == o.some /\ o.val # <<>>
OptTexts == {None} \cup {Some(t) : t \in Texts}

Min(a, b) == IF a <= b THEN a ELSE b

\* --------------------------------------------------------------- settings
DefaultSettings == [MAX_RETRIES |-> 3, BACKOFF_MIN |-> 1, BACKOFF_MAX |-> 8]
\* Environment overrides of the retry configuration the runs are checked under.
SettingsChoices ==
    { DefaultSettings,
      [MAX_RETRIES |-> 3, BACKOFF_MIN |-> 1, BACKOFF_MAX |-> 2],
      [MAX_RETRIES |-> 1, BACKOFF_MIN |-> 2, BACKOFF_MAX |-> 8],
      [MAX_RETRIES |-> 3, BACKOFF_MIN |-> 2, BACKOFF_MAX |-> 3] }

\* -------------------------------------------------------- provider outcomes
TransientErrors == {"RateLimitError", "APIConnectionError"}
NonTransientErrors == {"BadRequestError", "AuthenticationError"}
ProviderErrors == TransientErrors \cup NonTransientErrors

\* One content block of an Anthropic response: a text block, or a block
\* without a text attribute (tool use).
Blocks == {[has_text |-> TRUE, text |-> t] : t \in BlockTexts}
              \cup {[has_text |-> FALSE, text |-> <<>>]}
BlockLists == UNION {[1..n -> Blocks] : n \in 0..MaxBlocks}

ErrorOutcome(e) == [kind |-> "error", err |-> e, content |-> None, blocks |-> <<>>]
\* chat.completions.create: raises, or message.content is None or a text.
OpenAIOutcomes ==
    {ErrorOutcome(e) : e \in ProviderErrors}
      \cup {[kind |-> "ok", err |-> "", content |-> c, blocks |-> <<>>] : c \in OptTexts}
\* messages.create: raises, or response.content is a list of blocks.
AnthropicOutcomes ==
    {ErrorOutcome(e) : e \in ProviderErrors}
      \cup {[kind |-> "ok", err |-> "", content |-> None, blocks |-> b] : b \in BlockLists}

\* The pipeline runs that execute concurrently as tasks of one event loop.
Runs == {1, 2}

VARIABLES
    settings,          \* core.config.settings (retry configuration)
    g_pc,              \* position of the generate_content run
    topic,             \* generate_content's argument
    r_attempt,         \* refine_topic: loop variable `attempt` (0-based)
    r_calls,           \* refine_topic: provider calls made
    r_sleeps,          \* refine_topic: backoff sleeps taken
    r_status,          \* how refine_topic ended
    generated_topic,   \* generate_content: generated_topic
    user_prompt,       \* generate_content: the topic substituted into the template
    attempt,           \* generate_content: loop variable `attempt` (1-based)
    content,           \* generate_content: try_model's last return value
    g_last,            \* [kind, err] of the last generation provider outcome
    gen_calls,         \* providers called by the generation loop, in order
    sleeps,            \* backoff sleeps of the generation loop, in order
    result,            \* value generate_content returned
    g_error,           \* exception generate_content raised
    events,            \* the events log_event recorded, in order
    a_pc,              \* position of the adapter's complete() run
    provider,          \* which adapter runs: "openai" or "anthropic"
    a_attempt,         \* complete(): loop variable `attempt` (0-based)
    a_calls,           \* complete(): provider calls made
    a_transient,       \* complete(): calls that failed with a transient error
    a_sleeps,          \* complete(): backoff sleeps taken, in order
    a_content,         \* complete(): `content` extracted from the last response
    a_last,            \* [kind, err] of the last provider outcome
    a_response,        \* the CompletionResponse complete() returned
    a_error,           \* the exception complete() raised
    a_model,           \* complete(): the resolved `model`
    a_log,             \* usage-log events emitted by token_logger.log_completion
    p_pc,              \* "idle", or "built" once a component has built a provider call
    p_component,       \* the component that built the call
    p_request,         \* the request (or configured model) it was built from
    p_reasoning,       \* what the component's is_reasoning_model answered
    p_params,          \* the provider call's parameters (api_params)
    v_pc,              \* position of the validate_content run
    v_attempt,         \* validate_content: loop variable `attempt` (0-based)
    v_calls,           \* validate_content: provider calls made
    v_sleeps,          \* validate_content: backoff sleeps taken, in order
    v_last,            \* kind of the last provider outcome: error, empty or text
    v_result,          \* validate_content: `result`, the last reply's text
    v_report,          \* the report validate_content returned
    v_error,           \* the exception validate_content raised ("" for none)
    d_pc,              \* "idle", or "done" once calculate_keyword_density returned
    d_content,         \* calculate_keyword_density: content
    d_keyphrase,       \* calculate_keyword_density: keyphrase
    d_density,         \* the value returned, in hundredths of a percent
    f_pc,              \* position of the fix_content run
    f_content,         \* fix_content: content
    f_report,          \* fix_content: validation_report
    f_keyphrase,       \* fix_content: focus_keyphrase taken from metadata
    f_needs,           \* fix_content: fix_needs
    f_calls,           \* provider calls fix_content has made in this run
    f_last,            \* what the provider call did (kind "none" before it)
    f_result,          \* the dict fix_content returned
    f_error,           \* the exception fix_content raised ("" for none)
    openai_client,     \* topic_refiner._openai_client: "None" or "AsyncOpenAI"
    c_pc,              \* concurrent pipeline runs: position of each run
    c_kind,            \* the coroutine each run executes
    c_topic,           \* the text argument of each run (topic or content)
    c_report,          \* fix_content runs: validation_report
    c_attempt,         \* the cells holding the runs' loop variable `attempt`
    c_outcomes,        \* the provider outcomes each run has received, in order
    c_sleeps,          \* the backoff sleeps of each run, in order
    c_title,           \* the value refine_topic returned to each run
    c_result,          \* what each run returned or raised
    w_pc,              \* position of the write_article request
    w_topic,           \* write_article: request.topic
    w_refined,         \* write_article: refined_topic
    w_refinements,     \* the topics refine_topic was called with, in order
    w_prompt,          \* generate_content: the topic put into the user prompt
    w_status,          \* HTTP status of the response (0 while running)
    w_attempt,         \* loop variable `attempt` of the loop the request is in
    w_sleeps,          \* the backoff sleeps the request has awaited, in order
    w_content,         \* write_article: content (None before generation returned)
    w_validation,      \* write_article: validation
    pp_pc,             \* "idle", or "done" once post_process_content has returned
    pp_content,        \* post_process_content: the argument `content`
    pp_result,         \* post_process_content: the text returned
    x_pc,              \* "idle", or "done" once exception_to_http_exception returned
    x_exc,             \* exception_to_http_exception: the argument exc
    x_http,            \* the HTTPException returned
    t_pc,              \* position of the validate_topic call
    t_topic,           \* validate_topic: the argument topic
    t_min_length,      \* validate_topic: min_length
    t_max_length,      \* validate_topic: max_length
    t_result,          \* the topic validate_topic returned
    t_error            \* the exception validate_topic raised ("" for none)

grunvars == <<g_pc, topic, r_attempt, r_calls, r_sleeps, r_status, generated_topic,
              user_prompt, attempt, content, g_last, gen_calls, sleeps, result, g_error>>

gvars == <<g_pc, topic, r_attempt, r_calls, r_sleeps, r_status, generated_topic,
           user_prompt, attempt, content, g_last, gen_calls, sleeps, result, g_error,
           events>>

arunvars == <<a_pc, provider, a_attempt, a_calls, a_transient, a_sleeps, a_content,
              a_last, a_response, a_error, a_model>>

avars == <<a_pc, provider, a_attempt, a_calls, a_transient, a_sleeps, a_content,
           a_last, a_response, a_error, a_model, a_log>>

pvars == <<p_pc, p_component, p_request, p_reasoning, p_params>>

vvars == <<v_pc, v_attempt, v_calls, v_sleeps, v_last, v_result, v_report, v_error>>

dvars == <<d_pc, d_content, d_keyphrase, d_density>>

fvars == <<f_pc, f_content, f_report, f_keyphrase, f_needs, f_calls, f_last, f_result,
          f_error>>

crunvars == <<c_pc, c_kind, c_topic, c_report, c_attempt, c_outcomes, c_sleeps, c_title,
             c_result>>

cvars == <<openai_client, c_pc, c_kind, c_topic, c_report, c_attempt, c_outcomes,
           c_sleeps, c_title, c_result>>

wvars == <<w_pc, w_topic, w_refined, w_refinements, w_prompt, w_status, w_attempt,
           w_sleeps, w_content, w_validation>>

ppvars == <<pp_pc, pp_content, pp_result>>

xvars == <<x_pc, x_exc, x_http>>

tvars == <<t_pc, t_topic, t_min_length, t_max_length, t_result, t_error>>

vars == <<settings, gvars, avars, pvars, vvars, dvars, fvars, cvars, wvars, ppvars,
          xvars, tvars>>

NoError == [type |-> "", topic |-> <<>>]
NoException == [class |-> "", message |-> "", error_code |-> ""]
NoHttpException == [status_code |-> 0, detail |-> [error |-> "", message |-> ""]]
NoOutcome == [kind |-> "", err |-> ""]
NoResponse == [content |-> <<>>, provider |-> "", model |-> "", input_tokens |-> 0,
               output_tokens |-> 0, total_tokens |-> 0, cost |-> 0]
NoAdapterError == [type |-> "", attempts |-> 0, cause |-> ""]
NoneInt == [some |-> FALSE, val |-> 0]
SomeInt(n) == [some |-> TRUE, val |-> n]
NoRequest == [model |-> "", max_tokens |-> NoneInt, temperature |-> NoneInt,
              system_prompt |-> "", messages |-> <<>>]
ZeroScores == [grammar |-> 0, human |-> 0, seo |-> 0]
\* A score of a report handed to the fixer: a JSON number or null.
IntScore(n) == [null |-> FALSE, val |-> n]
NullScore == [null |-> TRUE, val |-> 0]
\* A report handed to the fixer: the scores dict and the three flat scores are
\* each present or absent and hold the same three values.
NoFixReport == [has_scores |-> FALSE, has_flat |-> FALSE, grammar |-> IntScore(0),
                human |-> IntScore(0), seo |-> IntScore(0), has_faq |-> FALSE,
                issues |-> <<>>]
NoFixOutcome == [kind |-> "none", content |-> None]
NoFixResult == [fixed_content |-> <<>>, fix_summary |-> <<>>, added_FAQ |-> FALSE,
                keyword_density |-> 0]
\* No report: the shape of every report, with nothing in it.
NoReport == [kind |-> "none", scores |-> ZeroScores, has_faq |-> FALSE, issues |-> <<>>,
             legacy |-> FALSE, grammar_score |-> 0, human_score |-> 0, seo_score |-> 0,
             suggestions |-> <<>>, error |-> "", raw_output |-> <<>>]
\* A run that has neither returned nor raised.
NoRunResult == [text |-> <<>>, report |-> NoReport, fix |-> NoFixResult,
                resp |-> NoResponse, error |-> NoAdapterError]
NoParams == [keys |-> {}, model |-> "", max_tokens |-> 0, max_completion_tokens |-> 0,
             temperature |-> 0, system |-> "", messages |-> <<>>]

Init ==
    /\ settings \in SettingsChoices
    /\ g_pc = "idle"
    /\ topic = <<>>
    /\ r_attempt = 0
    /\ r_calls = 0
    /\ r_sleeps = <<>>
    /\ r_status = ""
    /\ generated_topic = <<>>
    /\ user_prompt = <<>>
    /\ attempt = 0
    /\ content = None
    /\ g_last = NoOutcome
    /\ gen_calls = <<>>
    /\ sleeps = <<>>
    /\ result = <<>>
    /\ g_error = NoError
    /\ events = <<>>
    /\ a_pc = "idle"
    /\ provider = ""
    /\ a_attempt = 0
    /\ a_calls = 0
    /\ a_transient = 0
    /\ a_sleeps = <<>>
    /\ a_content = None
    /\ a_last = NoOutcome
    /\ a_response = NoResponse
    /\ a_error = NoAdapterError
    /\ a_model = ""
    /\ a_log = <<>>
    /\ p_pc = "idle"
    /\ p_component = ""
    /\ p_request = NoRequest
    /\ p_reasoning = FALSE
    /\ p_params = NoParams
    /\ v_pc = "idle"
    /\ v_attempt = 0
    /\ v_calls = 0
    /\ v_sleeps = <<>>
    /\ v_last = ""
    /\ v_result = <<>>
    /\ v_report = NoReport
    /\ v_error = ""
    /\ d_pc = "idle"
    /\ d_content = <<>>
    /\ d_keyphrase = <<>>
    /\ d_density = 0
    /\ f_pc = "idle"
    /\ f_content = <<>>
    /\ f_report = NoFixReport
    /\ f_keyphrase = <<>>
    /\ f_needs = <<>>
    /\ f_calls = 0
    /\ f_last = NoFixOutcome
    /\ f_result = NoFixResult
    /\ f_error = ""
    /\ openai_client = "None"
    /\ c_pc = [r \in Runs |-> "idle"]
    /\ c_topic = [r \in Runs |-> <<>>]
    /\ c_attempt = [r \in Runs |-> 0]
    /\ c_outcomes = [r \in Runs |-> <<>>]
    /\ c_sleeps = [r \in Runs |-> <<>>]
    /\ c_title = [r \in Runs |-> <<>>]
    /\ c_kind = [r \in Runs |-> ""]
    /\ c_report = [r \in Runs |-> NoFixReport]
    /\ c_result = [r \in Runs |-> NoRunResult]
    /\ w_pc = "idle"
    /\ w_topic = <<>>
    /\ w_refined = <<>>
    /\ w_refinements = <<>>
    /\ w_prompt = <<>>
    /\ w_status = 0
    /\ w_attempt = 0
    /\ w_sleeps = <<>>
    /\ w_content = None
    /\ w_validation = NoReport
    /\ pp_pc = "idle"
    /\ pp_content = <<>>
    /\ pp_result = <<>>
    /\ x_pc = "idle"
    /\ x_exc = NoException
    /\ x_http = NoHttpException
    /\ t_pc = "idle"
    /\ t_topic = <<>>
    /\ t_min_length = 0
    /\ t_max_length = 0
    /\ t_result = <<>>
    /\ t_error = ""

\* ------------------------------------------------- topic_refiner.refine_topic
\* Callers' topics: plain, longer, with surrounding whitespace, with a quote.
Topics == {<<"a">>, <<"a", "a">>, <<" ", "a">>, <<"a", " ">>, <<"\"", "a">>}

\* A title in the form TOPIC_PROMPT asks for: it ends in a question mark.
QuestionTitles == {<<"a", "?">>}

\* chat.completions.create in refine_topic: as for any OpenAI call, or a
\* question title.
RefineOutcomes ==
    OpenAIOutcomes
      \cup {[kind |-> "ok", err |-> "", content |-> Some(t), blocks |-> <<>>] :
              t \in QuestionTitles}

\* The wait without the cap.
RefineBackoffUncapped(cfg, att) == cfg.BACKOFF_MIN * (2 ^ att)

\* wait_time of refine_topic after the failed 0-based attempt att
RefineBackoff(cfg, att) == Min(cfg.BACKOFF_MIN * (2 ^ att), cfg.BACKOFF_MAX)

\* refine_topic with its final failure path returning the stripped topic, as
\* its unchanged-title path does.
RefineTopicAttemptStripOnFail(cfg, user_topic, att, o) ==
    IF o.kind = "error"
    THEN IF att < cfg.MAX_RETRIES - 1
         THEN [act |-> "sleep", val |-> <<>>, wait |-> RefineBackoff(cfg, att),
               status |-> ""]
         ELSE [act |-> "return", val |-> Strip(user_topic), wait |-> 0,
               status |-> "failed"]
    ELSE LET raw == IF Truthy(o.content) THEN o.content.val ELSE <<>>
             title == RemoveQuotes(Strip(raw))
         IN  IF title = <<>> \/ Strip(title) = Strip(user_topic)
             THEN [act |-> "return", val |-> Strip(user_topic), wait |-> 0,
                   status |-> "unchanged"]
             ELSE [act |-> "return", val |-> title, wait |-> 0, status |-> "refined"]

\* One iteration of refine_topic's retry loop, given the provider's outcome o:
\* what the iteration does (return a value, or sleep and continue).
RefineTopicAttempt(cfg, user_topic, att, o) ==
    IF o.kind = "error"
    THEN IF att < cfg.MAX_RETRIES - 1
         THEN [act |-> "sleep", val |-> <<>>, wait |-> RefineBackoff(cfg, att),
               status |-> ""]
         ELSE [act |-> "return", val |-> user_topic, wait |-> 0, status |-> "failed"]
    ELSE LET raw == IF Truthy(o.content) THEN o.content.val ELSE <<>>
             title == RemoveQuotes(Strip(raw))
         IN  IF title = <<>> \/ Strip(title) = Strip(user_topic)
             THEN [act |-> "return", val |-> Strip(user_topic), wait |-> 0,
                   status |-> "unchanged"]
             ELSE [act |-> "return", val |-> title, wait |-> 0, status |-> "refined"]

\* ---------------------------------------------------- generator.try_model
\* try_model returning the provider's text as it came, unchecked for blanks.
TryModelBodyNoStrip(model_name, o) ==
    IF o.kind = "error"
    THEN [exc |-> o.err, ret |-> None]
    ELSE IF model_name = "GPT"
    THEN IF ~Truthy(o.content) /\ ~o.has_usage
         THEN [exc |-> "AttributeError", ret |-> None]
         ELSE [exc |-> "", ret |-> IF Truthy(o.content) THEN o.content ELSE None]
    ELSE IF o.blocks = <<>>
    THEN [exc |-> "IndexError", ret |-> None]
    ELSE IF ~o.blocks[1].has_text
    THEN [exc |-> "AttributeError", ret |-> None]
    ELSE [exc |-> "", ret |-> IF o.blocks[1].text # <<>>
                              THEN Some(o.blocks[1].text) ELSE None]

\* The body of try_model's try block: the exception it raises ("" if none)
\* and the value it returns.  For an empty or blank text the body reads
\* resp.usage.completion_tokens, which raises when resp.usage is None.
TryModelBody(model_name, o) ==
    IF o.kind = "error"
    THEN [exc |-> o.err, ret |-> None]
    ELSE IF model_name = "GPT"
    THEN LET text == o.content
         IN  IF ~Truthy(text) \/ Strip(text.val) = <<>>
             THEN IF o.has_usage
                  THEN [exc |-> "", ret |-> None]
                  ELSE [exc |-> "AttributeError", ret |-> None]
             ELSE [exc |-> "", ret |-> Some(Strip(text.val))]
    ELSE IF o.blocks = <<>>
    THEN [exc |-> "IndexError", ret |-> None]
    ELSE IF ~o.blocks[1].has_text
    THEN [exc |-> "AttributeError", ret |-> None]
    ELSE LET text == Strip(o.blocks[1].text)
         IN  [exc |-> "", ret |-> IF text # <<>> THEN Some(text) ELSE None]

\* try_model catching only the transient provider errors.
TryModelCatchTransientOnly(model_name, o) ==
    LET b == TryModelBody(model_name, o)
    IN  IF b.exc # ""
        THEN IF b.exc \in TransientErrors
             THEN [raised |-> FALSE, exc |-> "", ret |-> None]
             ELSE [raised |-> TRUE, exc |-> b.exc, ret |-> None]
        ELSE [raised |-> FALSE, exc |-> "", ret |-> b.ret]

\* try_model: `except Exception` turns every exception of the body into None.
TryModel(model_name, o) ==
    LET b == TryModelBody(model_name, o)
    IN  IF b.exc # ""
        THEN [raised |-> FALSE, exc |-> "", ret |-> None]
        ELSE [raised |-> FALSE, exc |-> "", ret |-> b.ret]

\* ------------------------------------------------ generator.generate_content
\* A sequence whose last primary attempt went to the fallback provider.
ModelSequenceEarlyFallback(cfg) ==
    [i \in 1..(cfg.MAX_RETRIES + 1) |-> IF i < cfg.MAX_RETRIES THEN "GPT" ELSE "Claude"]

\* A sequence with a second fallback entry.
ModelSequenceTwoFallbacks(cfg) ==
    [i \in 1..(cfg.MAX_RETRIES + 2) |-> IF i <= cfg.MAX_RETRIES THEN "GPT" ELSE "Claude"]

\* model_sequence = ["GPT"] * MAX_RETRIES + ["Claude"]
ModelSequence(cfg) ==
    [i \in 1..(cfg.MAX_RETRIES + 1) |-> IF i <= cfg.MAX_RETRIES THEN "GPT" ELSE "Claude"]

\* The backoff computed from the 1-based index as if it were 0-based.
GenBackoffZeroBased(cfg, att) == Min(cfg.BACKOFF_MIN * (2 ^ att), cfg.BACKOFF_MAX)

\* backoff after the failed 1-based attempt att
GenBackoff(cfg, att) == Min(cfg.BACKOFF_MIN * (2 ^ (att - 1)), cfg.BACKOFF_MAX)

\* generated_topic after the try/except around refine_topic
GeneratedTopic(raw_topic, r) == IF r.act = "raise" THEN raw_topic ELSE r.val

\* The final error naming the caller's topic instead of generated_topic.
TotalFailErrorRawTopic(raw_topic, gen_topic) ==
    [type |-> "RuntimeError", topic |-> raw_topic]

\* The RuntimeError raised when every attempt failed; its message ends with
\* the topic it names.
TotalFailError(raw_topic, gen_topic) == [type |-> "RuntimeError", topic |-> gen_topic]

\* try_model reads response.content[0] alone: the block lists it is given.
MaxGenBlocks == 1

\* messages.create as try_model sees it: raises, or a short list of blocks.
GenAnthropicOutcomes ==
    {o \in AnthropicOutcomes : Len(o.blocks) <= MaxGenBlocks}

\* chat.completions.create as try_model sees it: raises, or a response with
\* its message.content and a usage that is present or None.
GenOpenAIOutcomes ==
    {ErrorOutcome(e) : e \in ProviderErrors}
      \cup {[kind |-> "ok", err |-> "", content |-> c, blocks |-> <<>>, has_usage |-> u] :
              c \in OptTexts, u \in BOOLEAN}

\* The providers' outcomes for a call against the sequence entry model.
OutcomesFor(model) == IF model = "GPT" THEN GenOpenAIOutcomes ELSE GenAnthropicOutcomes

\* log_event(model, topic, status): the record written to the log.
LogEvent(model, status) == [model |-> model, status |-> status]

\* The events try_model itself logs: EMPTY_CONTENT when the primary provider's
\* text is empty or blank, FAIL in its except block.
TryModelEvents(model_name, o) ==
    LET b == TryModelBody(model_name, o)
    IN  IF b.exc # ""
        THEN <<LogEvent(model_name, "FAIL")>>
        ELSE IF model_name = "GPT" /\ ~Truthy(b.ret)
        THEN <<LogEvent(model_name, "EMPTY_CONTENT")>>
        ELSE <<>>

\* The start event of iteration att, logged before try_model is awaited.
StartEvent(cfg, att) ==
    LogEvent(ModelSequence(cfg)[att], IF att > 1 THEN "RETRY_START" ELSE "START")

\* The events logged from the completion of the provider call of iteration
\* att on: the events of try_model, the outcome event, and TOTAL_FAIL once
\* the loop is exhausted.
AttemptEvents(cfg, att, o) ==
    LET seq == ModelSequence(cfg)
        model == seq[att]
        r == TryModel(model, o)
        retry == att > 1
    IN  TryModelEvents(model, o)
        \o (IF Truthy(r.ret)
            THEN <<LogEvent(model, IF retry THEN "RETRY_SUCCESS" ELSE "SUCCESS")>>
            ELSE <<LogEvent(model, IF retry THEN "RETRY_FAIL" ELSE "FAIL")>>)
        \o (IF ~Truthy(r.ret) /\ att = Len(seq)
            THEN <<LogEvent("SYSTEM", "TOTAL_FAIL")>>
            ELSE <<>>)

\* generate_content(topic) is called and runs into refine_topic, up to its
\* first provider call: get_openai_client() has created the client.
GenStart(t) ==
    /\ g_pc = "idle"
    /\ g_pc' = "refine"
    /\ topic' = t
    /\ openai_client' = "AsyncOpenAI"
    /\ UNCHANGED <<settings, tvars, xvars, ppvars, wvars, crunvars, fvars, dvars, avars, pvars, vvars, r_attempt, r_calls, r_sleeps, r_status, generated_topic,
                   user_prompt, attempt, content, g_last, gen_calls, sleeps, result,
                   g_error, events>>

\* refine_topic: one provider call and what follows it up to the next
\* suspension point; on return, generate_content builds the prompt, enters
\* the generation loop, logs the start event and calls try_model.
RefineCall(o) ==
    /\ g_pc = "refine"
    /\ LET r == RefineTopicAttempt(settings, topic, r_attempt, o)
       IN  /\ r_calls' = r_calls + 1
           /\ IF r.act = "sleep"
              THEN /\ g_pc' = "refine_sleep"
                   /\ r_sleeps' = Append(r_sleeps, r.wait)
                   /\ UNCHANGED <<r_status, generated_topic, user_prompt, attempt,
                                  events>>
              ELSE /\ g_pc' = "attempt"
                   /\ r_status' = IF r.act = "raise" THEN "raised" ELSE r.status
                   /\ generated_topic' = GeneratedTopic(topic, r)
                   /\ user_prompt' = GeneratedTopic(topic, r)
                   /\ attempt' = 1
                   /\ events' = Append(events, StartEvent(settings, 1))
                   /\ UNCHANGED r_sleeps
    /\ UNCHANGED <<settings, tvars, xvars, ppvars, wvars, cvars, fvars, dvars, avars, pvars, vvars, topic, r_attempt, content, g_last, gen_calls, sleeps,
                   result, g_error>>

\* refine_topic: the backoff sleep ends and the loop continues.
RefineSleep ==
    /\ g_pc = "refine_sleep"
    /\ g_pc' = "refine"
    /\ r_attempt' = r_attempt + 1
    /\ UNCHANGED <<settings, tvars, xvars, ppvars, wvars, cvars, fvars, dvars, avars, pvars, vvars, topic, r_calls, r_sleeps, r_status, generated_topic,
                   user_prompt, attempt, content, g_last, gen_calls, sleeps, result,
                   g_error, events>>

\* generate_content: one iteration of the generation loop, from the
\* completion of try_model's provider call to the return, the backoff sleep
\* or the final raise.
GenAttempt(o) ==
    /\ g_pc = "attempt"
    /\ LET seq == ModelSequence(settings)
           model == seq[attempt]
           r == TryModel(model, o)
       IN  /\ o \in OutcomesFor(model)
           /\ gen_calls' = Append(gen_calls, model)
           /\ g_last' = [kind |-> o.kind, err |-> o.err]
           /\ events' = events \o AttemptEvents(settings, attempt, o)
           /\ IF r.raised
              THEN /\ g_pc' = "raised"
                   /\ g_error' = [type |-> r.exc, topic |-> <<>>]
                   /\ UNCHANGED <<content, result, sleeps>>
              ELSE /\ content' = r.ret
                   /\ IF Truthy(r.ret)
                      THEN /\ g_pc' = "returned"
                           /\ result' = r.ret.val
                           /\ UNCHANGED <<sleeps, g_error>>
                      ELSE IF attempt < Len(seq)
                      THEN /\ g_pc' = "sleep"
                           /\ sleeps' = Append(sleeps, GenBackoff(settings, attempt))
                           /\ UNCHANGED <<result, g_error>>
                      ELSE /\ g_pc' = "raised"
                           /\ g_error' = TotalFailError(topic, generated_topic)
                           /\ UNCHANGED <<result, sleeps>>
    /\ UNCHANGED <<settings, tvars, xvars, ppvars, wvars, cvars, fvars, dvars, avars, pvars, vvars, topic, r_attempt, r_calls, r_sleeps, r_status,
                   generated_topic, user_prompt, attempt>>

\* generate_content: the backoff sleep ends, the loop takes the next entry,
\* logs its start event and calls try_model.
GenSleep ==
    /\ g_pc = "sleep"
    /\ g_pc' = "attempt"
    /\ attempt' = attempt + 1
    /\ events' = Append(events, StartEvent(settings, attempt + 1))
    /\ UNCHANGED <<settings, tvars, xvars, ppvars, wvars, cvars, fvars, dvars, avars, pvars, vvars, topic, r_attempt, r_calls, r_sleeps, r_status,
                   generated_topic, user_prompt, content, g_last, gen_calls, sleeps,
                   result, g_error>>

NextGen ==
    \/ \E t \in Topics : GenStart(t)
    \/ g_pc = "refine" /\ \E o \in RefineOutcomes : RefineCall(o)
    \/ RefineSleep
    \/ g_pc = "attempt" /\ \E o \in OutcomesFor(ModelSequence(settings)[attempt]) :
                                GenAttempt(o)
    \/ GenSleep

SpecGen == Init /\ [][NextGen]_vars

\* The steps of a started run: each awaits one provider call or one sleep.
GenProgress ==
    \/ g_pc = "refine" /\ \E o \in RefineOutcomes : RefineCall(o)
    \/ RefineSleep
    \/ g_pc = "attempt" /\ \E o \in OutcomesFor(ModelSequence(settings)[attempt]) :
                                GenAttempt(o)
    \/ GenSleep

\* The run under an event loop in which every awaited provider call and every
\* awaited sleep completes.
SpecGenLive == Init /\ [][NextGen]_vars /\ WF_vars(GenProgress)

\* ------------------------------- OpenAIClient.complete / AnthropicClient.complete
Providers == {"openai", "anthropic"}

RECURSIVE ConcatText(_)
\* content = ""; for block in response.content: if hasattr(block, 'text'): ...
ConcatText(blocks) ==
    IF blocks = <<>>
    THEN <<>>
    ELSE (IF Head(blocks).has_text THEN Head(blocks).text ELSE <<>>)
             \o ConcatText(Tail(blocks))

\* `content` as each adapter extracts it from a response
ExtractContent(p, o) ==
    IF p = "openai" THEN o.content ELSE Some(ConcatText(o.blocks))

\* An except clause that takes every provider error for a transient one.
IsTransientAnyProviderError(err) == err \in ProviderErrors

\* except (RateLimitError, APIConnectionError)
IsTransient(err) == err \in TransientErrors

\* The retry test off by one: the last attempt sleeps instead of raising.
ShouldRetryOffByOne(cfg, att) == att < cfg.MAX_RETRIES

\* if attempt < settings.MAX_RETRIES - 1
ShouldRetry(cfg, att) == att < cfg.MAX_RETRIES - 1

\* The wait doubled once more than the attempt index calls for.
AdapterBackoffDoubled(cfg, att) == Min(cfg.BACKOFF_MIN * (2 ^ (att + 1)), cfg.BACKOFF_MAX)

\* wait_time of complete() after the failed 0-based attempt att
AdapterBackoff(cfg, att) == Min(cfg.BACKOFF_MIN * (2 ^ att), cfg.BACKOFF_MAX)

\* settings.MODEL_PRIMARY, settings.MODEL_FALLBACK
MODEL_PRIMARY == "gpt-4o-mini"
MODEL_FALLBACK == "claude-3-5-sonnet-20241022"

\* request.model values: absent, or a model identifier.
RequestModels == {"", "gpt-4o", "my-model"}

\* model = request.model or <the adapter's default>
ResolveModel(p, m) ==
    IF m # "" THEN m ELSE IF p = "openai" THEN MODEL_PRIMARY ELSE MODEL_FALLBACK

\* t occurs in s as a contiguous run of characters (`t in s`).
Contains(s, t) ==
    \E i \in 0..(Len(s) - Len(t)) : SubSeq(s, i + 1, i + Len(t)) = t

\* str.lower() on the letters model identifiers are written with
LowerChar(c) ==
    CASE c = "A" -> "a" [] c = "C" -> "c" [] c = "G" -> "g" [] c = "I" -> "i"
      [] c = "M" -> "m" [] c = "N" -> "n" [] c = "O" -> "o" [] c = "P" -> "p"
      [] c = "T" -> "t" [] c = "F" -> "f" [] c = "Q" -> "q" [] OTHER -> c

RECURSIVE Lower(_)
Lower(s) ==
    IF Len(s) = 0 THEN ""
    ELSE LowerChar(SubSeq(s, 1, 1)) \o Lower(SubSeq(s, 2, Len(s)))

\* self.costs of each adapter, in insertion order; rates in thousandths of a
\* dollar per million tokens.
OpenAICosts ==
    << [key |-> "gpt-4o", input |-> 2500, output |-> 10000],
       [key |-> "gpt-4o-mini", input |-> 150, output |-> 600],
       [key |-> "gpt-4-turbo", input |-> 10000, output |-> 30000],
       [key |-> "gpt-4", input |-> 30000, output |-> 60000],
       [key |-> "gpt-3.5-turbo", input |-> 500, output |-> 1500],
       [key |-> "o1-preview", input |-> 15000, output |-> 60000],
       [key |-> "o1-mini", input |-> 3000, output |-> 12000],
       [key |-> "o3-mini", input |-> 3000, output |-> 12000] >>

AnthropicCosts ==
    << [key |-> "claude-3-5-sonnet", input |-> 3000, output |-> 15000],
       [key |-> "claude-3-opus", input |-> 15000, output |-> 75000],
       [key |-> "claude-3-sonnet", input |-> 3000, output |-> 15000],
       [key |-> "claude-3-haiku", input |-> 250, output |-> 1250] >>

CostTable(p) == IF p = "openai" THEN OpenAICosts ELSE AnthropicCosts

\* for key in self.costs.keys(): if key in model.lower(): model_key = key; break
\* (0 when no key matches)
MatchingKey(table, model) ==
    LET lowered == Lower(model)
        hits == {i \in 1..Len(table) : Contains(lowered, table[i].key)}
    IN  IF hits = {} THEN 0 ELSE CHOOSE i \in hits : \A j \in hits : i <= j

\* _calculate_cost, in billionths of a dollar.  Without a matching key the
\* OpenAI adapter returns 0.0 and the Anthropic adapter prices the call as
\* claude-3-5-sonnet.
CalculateCost(p, model, input_tokens, output_tokens) ==
    LET table == CostTable(p)
        k == MatchingKey(table, model)
    IN  IF k = 0 /\ p = "openai"
        THEN 0
        ELSE LET rates == table[IF k = 0 THEN 1 ELSE k]
             IN  input_tokens * rates.input + output_tokens * rates.output

\* response.usage: absent, or the counters the provider reports, each drawn
\* from TokenCounts (the Anthropic record has no total).
TokenCounts == {0, 1}
NoUsage == [present |-> FALSE, input |-> 0, output |-> 0, total |-> 0]
Usages(p) ==
    {NoUsage} \cup
    {[present |-> TRUE, input |-> i, output |-> o, total |-> t] :
        i \in TokenCounts, o \in TokenCounts,
        t \in IF p = "openai" THEN TokenCounts ELSE {0}}

InputTokens(u) == IF u.present THEN u.input ELSE 0
OutputTokens(u) == IF u.present THEN u.output ELSE 0

\* OpenAI: usage.total_tokens if usage else (input_tokens + output_tokens);
\* Anthropic: input_tokens + output_tokens
TotalTokens(p, u) ==
    IF p = "openai" /\ u.present
    THEN u.total
    ELSE InputTokens(u) + OutputTokens(u)

\* self.logger_name of each adapter
LoggerName(p) == IF p = "openai" THEN "ai_client.openai" ELSE "ai_client.anthropic"

\* The iteration reaches token_logger.log_completion only past the
\* `if not content: raise` check.
EmitsUsageLogAlways(c) == TRUE

EmitsUsageLog(c) == Truthy(c)

\* One iteration of complete()'s retry loop, given the provider's outcome o
\* and the usage record u of its response.
CompleteAttempt(cfg, p, model, att, o, u) ==
    LET Raise(e, log) == [act |-> "raise", resp |-> NoResponse, wait |-> 0,
                          error |-> e, log |-> log]
        event == [model |-> model, input_tokens |-> InputTokens(u),
                  output_tokens |-> OutputTokens(u), component |-> LoggerName(p)]
    IN  IF o.kind = "error"
        THEN IF IsTransient(o.err)
             THEN IF ShouldRetry(cfg, att)
                  THEN [act |-> "sleep", resp |-> NoResponse,
                        wait |-> AdapterBackoff(cfg, att), error |-> NoAdapterError,
                        log |-> <<>>]
                  ELSE Raise([type |-> "Exception", attempts |-> cfg.MAX_RETRIES,
                              cause |-> o.err], <<>>)
             ELSE Raise([type |-> o.err, attempts |-> 0, cause |-> ""], <<>>)
        ELSE LET c == ExtractContent(p, o)
                 log == IF EmitsUsageLog(c) THEN <<event>> ELSE <<>>
             IN  IF ~Truthy(c)
                 THEN Raise([type |-> "ValueError", attempts |-> 0, cause |-> ""], log)
                 ELSE [act |-> "return",
                       resp |-> [content |-> Strip(c.val), provider |-> p,
                                 model |-> model,
                                 input_tokens |-> InputTokens(u),
                                 output_tokens |-> OutputTokens(u),
                                 total_tokens |-> TotalTokens(p, u),
                                 cost |-> CalculateCost(p, model, InputTokens(u),
                                                        OutputTokens(u))],
                       wait |-> 0, error |-> NoAdapterError, log |-> log]

AdapterOutcomes(p) == IF p = "openai" THEN OpenAIOutcomes ELSE AnthropicOutcomes

\* complete(request) is called on one of the adapters.
AdapterStart(p, m) ==
    /\ a_pc = "idle"
    /\ a_pc' = "call"
    /\ provider' = p
    /\ a_model' = ResolveModel(p, m)
    /\ UNCHANGED <<settings, tvars, xvars, ppvars, wvars, cvars, fvars, dvars, gvars, pvars, vvars, a_attempt, a_calls, a_transient, a_sleeps,
                   a_content, a_last, a_response, a_error, a_log>>

\* complete(): one provider call and what follows it up to the return, the
\* raise or the backoff sleep.
AdapterCall(o, u) ==
    /\ a_pc = "call"
    /\ o \in AdapterOutcomes(provider)
    /\ u \in (IF o.kind = "ok" THEN Usages(provider) ELSE {NoUsage})
    /\ LET r == CompleteAttempt(settings, provider, a_model, a_attempt, o, u)
       IN  /\ a_calls' = a_calls + 1
           /\ a_last' = [kind |-> o.kind, err |-> o.err]
           /\ a_transient' = IF o.kind = "error" /\ o.err \in TransientErrors
                             THEN a_transient + 1 ELSE a_transient
           /\ a_content' = IF o.kind = "ok" THEN ExtractContent(provider, o) ELSE None
           /\ a_pc' = CASE r.act = "sleep" -> "sleep"
                        [] r.act = "return" -> "returned"
                        [] OTHER -> "raised"
           /\ a_sleeps' = IF r.act = "sleep" THEN Append(a_sleeps, r.wait) ELSE a_sleeps
           /\ a_response' = r.resp
           /\ a_error' = r.error
           /\ a_log' = a_log \o r.log
    /\ UNCHANGED <<settings, tvars, xvars, ppvars, wvars, cvars, fvars, dvars, gvars, pvars, vvars, provider, a_attempt, a_model>>

\* complete(): the backoff sleep ends; the loop continues, or, out of
\* attempts, falls through to the final raise.
AdapterSleep ==
    /\ a_pc = "sleep"
    /\ a_attempt' = a_attempt + 1
    /\ IF a_attempt + 1 < settings.MAX_RETRIES
       THEN /\ a_pc' = "call"
            /\ UNCHANGED a_error
       ELSE /\ a_pc' = "raised"
            /\ a_error' = [type |-> "Exception", attempts |-> 0, cause |-> ""]
    /\ UNCHANGED <<settings, tvars, xvars, ppvars, wvars, cvars, fvars, dvars, gvars, pvars, vvars, provider, a_calls, a_transient, a_sleeps,
                   a_content, a_last, a_response, a_model, a_log>>

\* ------------------------------------------- building the provider call
\* settings.DEFAULT_TEMPERATURE (in tenths) and settings.DEFAULT_MAX_TOKENS
DEFAULT_TEMPERATURE == 7
DEFAULT_MAX_TOKENS == 2000

Components ==
    {"openai_adapter", "anthropic_adapter", "generator", "topic_refiner", "validator"}

\* Model identifiers a request, a caller or the configuration names ("" for
\* none given).
ModelIds ==
    {"", "gpt-4o-mini", "o1-mini", "O1-Preview", "o3-mini", "GPT-5-turbo",
     "claude-3-opus"}

ReasoningKeywords == {"o1-", "o3-", "gpt-5"}

\* is_reasoning_model lacking the model.lower() step.
IsReasoningModelCaseSensitive(c, model) ==
    IF c = "anthropic_adapter"
    THEN FALSE
    ELSE \E kw \in ReasoningKeywords : Contains(model, kw)

\* is_reasoning_model of each component: any(keyword in model.lower() ...);
\* AnthropicClient.is_reasoning_model returns False.
IsReasoningModel(c, model) ==
    IF c = "anthropic_adapter"
    THEN FALSE
    ELSE \E kw \in ReasoningKeywords : Contains(Lower(model), kw)

\* Message values of a request: two system messages that differ, a user and
\* an assistant message.
Messages ==
    {[role |-> "system", content |-> "m1"], [role |-> "system", content |-> "m2"],
     [role |-> "user", content |-> "m1"], [role |-> "assistant", content |-> "m2"]}
MessageLists == UNION {[1..n -> Messages] : n \in 0..MaxMsgs}

\* request.max_tokens: None, 0 or a budget; request.temperature: None, 0.0 or
\* 0.5 (in tenths).
OptMaxTokens == {NoneInt, SomeInt(0), SomeInt(100)}
OptTemperatures == {NoneInt, SomeInt(0), SomeInt(5)}

\* CompletionRequest values; system_prompt "" stands for None.
Requests ==
    [model : ModelIds, max_tokens : OptMaxTokens, temperature : OptTemperatures,
     system_prompt : {"", "p"}, messages : MessageLists]

\* `x or default` on an Optional[int]
OrDefault(o, d) == IF o.some /\ o.val # 0 THEN o.val ELSE d

\* AIClient._format_messages: the system prompt, if any, then every message.
FormatMessages(req) ==
    (IF req.system_prompt # "" THEN <<[role |-> "system", content |-> req.system_prompt]>> ELSE <<>>)
        \o req.messages

RECURSIVE AnthropicSystemPromptFirst(_, _)
\* The loop keeping request.system_prompt once it is set.
AnthropicSystemPromptFirst(system_prompt, msgs) ==
    IF msgs = <<>>
    THEN system_prompt
    ELSE AnthropicSystemPromptFirst(
             IF Head(msgs).role = "system" /\ system_prompt = ""
             THEN Head(msgs).content ELSE system_prompt,
             Tail(msgs))

RECURSIVE AnthropicSystem(_, _)
\* AnthropicClient.complete: system_prompt after the loop over request.messages
AnthropicSystem(system_prompt, msgs) ==
    IF msgs = <<>>
    THEN system_prompt
    ELSE AnthropicSystem(
             IF Head(msgs).role = "system" THEN Head(msgs).content ELSE system_prompt,
             Tail(msgs))

RECURSIVE AnthropicMessages(_)
\* AnthropicClient.complete: `messages` after the loop over request.messages
AnthropicMessages(msgs) ==
    IF msgs = <<>>
    THEN <<>>
    ELSE (IF Head(msgs).role = "system" THEN <<>> ELSE <<Head(msgs)>>)
             \o AnthropicMessages(Tail(msgs))

\* The model each component calls: the one given, else its configured default.
ResolveModelFor(c, m) ==
    ResolveModel(IF c = "anthropic_adapter" THEN "anthropic" ELSE "openai", m)

\* The budget branch sending a temperature with a reasoning call as well.
BudgetParamsAlwaysTemperature(reasoning, model, reasoning_budget, max_tokens, temperature) ==
    IF reasoning
    THEN [NoParams EXCEPT !.keys = {"model", "messages", "max_completion_tokens",
                                    "temperature"},
                          !.model = model,
                          !.max_completion_tokens = reasoning_budget,
                          !.temperature = temperature]
    ELSE [NoParams EXCEPT !.keys = {"model", "messages", "max_tokens", "temperature"},
                          !.model = model,
                          !.max_tokens = max_tokens,
                          !.temperature = temperature]

\* The parameters with the token budget and temperature of a reasoning or a
\* standard call.
BudgetParams(reasoning, model, reasoning_budget, max_tokens, temperature) ==
    IF reasoning
    THEN [NoParams EXCEPT !.keys = {"model", "messages", "max_completion_tokens"},
                          !.model = model,
                          !.max_completion_tokens = reasoning_budget]
    ELSE [NoParams EXCEPT !.keys = {"model", "messages", "max_tokens", "temperature"},
                          !.model = model,
                          !.max_tokens = max_tokens,
                          !.temperature = temperature]

\* api_params as each component builds them.
BuildParams(c, req) ==
    LET model == ResolveModelFor(c, req.model)
        reasoning == IsReasoningModel(c, model)
    IN  CASE c = "openai_adapter" ->
               [BudgetParams(reasoning, model, OrDefault(req.max_tokens, 2000),
                             OrDefault(req.max_tokens, DEFAULT_MAX_TOKENS),
                             OrDefault(req.temperature, DEFAULT_TEMPERATURE))
                   EXCEPT !.messages = FormatMessages(req)]
          [] c = "anthropic_adapter" ->
               LET system == AnthropicSystem(req.system_prompt, req.messages)
               IN  [keys |-> {"model", "messages", "max_tokens", "temperature"}
                               \cup (IF system # "" THEN {"system"} ELSE {}),
                    model |-> model,
                    max_tokens |-> OrDefault(req.max_tokens, DEFAULT_MAX_TOKENS),
                    max_completion_tokens |-> 0,
                    temperature |-> IF req.temperature.some THEN req.temperature.val
                                    ELSE DEFAULT_TEMPERATURE,
                    system |-> system,
                    messages |-> AnthropicMessages(req.messages)]
          [] c = "generator" ->
               BudgetParams(reasoning, model, 10000, DEFAULT_MAX_TOKENS,
                            DEFAULT_TEMPERATURE)
          [] c = "topic_refiner" ->
               BudgetParams(reasoning, model, 500, 500, DEFAULT_TEMPERATURE)
          [] OTHER ->
               BudgetParams(reasoning, model, 800, 800, 3)

\* A component builds the parameters of a provider call.  The adapters take
\* a CompletionRequest; the generator and the topic refiner take the
\* configured primary model, the validator its model argument.
BuildCall(c, req) ==
    /\ p_pc = "idle"
    /\ c \in {"openai_adapter", "anthropic_adapter"}
          \/ req = [NoRequest EXCEPT !.model = req.model]
    /\ p_pc' = "built"
    /\ p_component' = c
    /\ p_request' = req
    /\ p_reasoning' = IsReasoningModel(c, ResolveModelFor(c, req.model))
    /\ p_params' = BuildParams(c, req)
    /\ openai_client' = IF c = "topic_refiner" THEN "AsyncOpenAI" ELSE openai_client
    /\ UNCHANGED <<settings, tvars, xvars, ppvars, wvars, crunvars, fvars, dvars, gvars, avars, vvars>>

\* The call is over; the component is ready to build the next one.
CallDone ==
    /\ p_pc = "built"
    /\ p_pc' = "idle"
    /\ p_component' = ""
    /\ p_request' = NoRequest
    /\ p_reasoning' = FALSE
    /\ p_params' = NoParams
    /\ UNCHANGED <<settings, tvars, xvars, ppvars, wvars, cvars, fvars, dvars, gvars, avars, vvars>>

NextParams ==
    \/ p_pc = "idle" /\ \E c \in Components, req \in Requests : BuildCall(c, req)
    \/ CallDone

InitParams == Init /\ settings = DefaultSettings

SpecParams == InitParams /\ [][NextParams]_vars

NextAdapter ==
    \/ a_pc = "idle" /\ \E p \in Providers, m \in RequestModels : AdapterStart(p, m)
    \/ a_pc = "call" /\ \E o \in AdapterOutcomes(provider), u \in Usages(provider) :
          AdapterCall(o, u)
    \/ AdapterSleep

SpecAdapter == Init /\ [][NextAdapter]_vars

\* ------------------------------------------------------ validate_content
\* max_retries of validate_content
ValidatorMaxRetries == 3

\* One entry of a reply's "suggestions" list: an issue object (with or
\* without a "message" key) or a bare text.
IssueDict(type, message) ==
    [is_dict |-> TRUE, has_message |-> TRUE, type |-> type, message |-> message,
     text |-> ""]
DictNoMessage(type) ==
    [is_dict |-> TRUE, has_message |-> FALSE, type |-> type, message |-> "", text |-> ""]
BareText(t) ==
    [is_dict |-> FALSE, has_message |-> FALSE, type |-> "", message |-> "", text |-> t]

RequiredKeys == {"grammar_score", "human_score", "seo_score", "has_faq", "suggestions"}

\* What json.loads returns for an object: the keys present and their values
\* (suggestions: a list, or null).
JsonObject(keys, g, h, s, faq, is_list, items) ==
    [keys |-> keys, grammar_score |-> g, human_score |-> h, seo_score |-> s,
     has_faq |-> faq, suggestions |-> [is_list |-> is_list, items |-> items]]

EmptyObject == JsonObject({}, 0, 0, 0, FALSE, FALSE, <<>>)

\* The JSON objects a reply may hold, by name:
\*   good          {"grammar_score":8,"human_score":7,"seo_score":9,"has_faq":true,
\*                  "suggestions":[{"type":"faq_missing","message":"m1"},
\*                                 {"type":"ai_tone","message":"m2"}]}
\*   clean         {"grammar_score":0,"human_score":10,"seo_score":5,"has_faq":false,
\*                  "suggestions":[]}
\*   legacy        {"grammar_score":6,"human_score":6,"seo_score":6,"has_faq":true,
\*                  "suggestions":["s1",{"type":"ai_tone","message":"m2"}]}
\*   out_of_range  {"grammar_score":11,"human_score":-1,"seo_score":5,"has_faq":true,
\*                  "suggestions":[]}
\*   no_suggestions {"grammar_score":8,"human_score":7,"seo_score":9,"has_faq":true}
\*   scores_only   {"grammar_score":8}
\*   no_message    {"grammar_score":8,"human_score":7,"seo_score":9,"has_faq":true,
\*                  "suggestions":[{"type":"ai_tone"}]}
\*   null_suggestions {"grammar_score":8,"human_score":7,"seo_score":9,"has_faq":true,
\*                  "suggestions":null}
ObjectNames ==
    {"good", "clean", "legacy", "out_of_range", "no_suggestions", "scores_only",
     "no_message", "null_suggestions"}

ObjectValue(name) ==
    CASE name = "good" ->
           JsonObject(RequiredKeys, 8, 7, 9, TRUE, TRUE,
                      <<IssueDict("faq_missing", "m1"), IssueDict("ai_tone", "m2")>>)
      [] name = "clean" ->
           JsonObject(RequiredKeys, 0, 10, 5, FALSE, TRUE, <<>>)
      [] name = "legacy" ->
           JsonObject(RequiredKeys, 6, 6, 6, TRUE, TRUE,
                      <<BareText("s1"), IssueDict("ai_tone", "m2")>>)
      [] name = "out_of_range" ->
           JsonObject(RequiredKeys, 11, -1, 5, TRUE, TRUE, <<>>)
      [] name = "no_suggestions" ->
           JsonObject(RequiredKeys \ {"suggestions"}, 8, 7, 9, TRUE, FALSE, <<>>)
      [] name = "scores_only" ->
           JsonObject({"grammar_score"}, 8, 0, 0, FALSE, FALSE, <<>>)
      [] name = "no_message" ->
           JsonObject(RequiredKeys, 8, 7, 9, TRUE, TRUE, <<DictNoMessage("ai_tone")>>)
      [] OTHER ->
           JsonObject(RequiredKeys, 8, 7, 9, TRUE, FALSE, <<>>)

\* A reply's text: a sequence of tokens, each an opening brace, a closing
\* brace, a prose character, a blank, or the text of one whole JSON object.
ReplyTokens == {"{", "}", "x", " "} \cup ObjectNames
ReplyTexts == UNION {[1..n -> ReplyTokens] : n \in 0..MaxReplyLen}

\* chat.completions.create in validate_content: raises, or message.content is
\* None or a text.
ValidatorOutcomes ==
    {[kind |-> "error", err |-> e, has_content |-> FALSE, text |-> <<>>] :
        e \in ProviderErrors}
      \cup {[kind |-> "ok", err |-> "", has_content |-> FALSE, text |-> <<>>]}
      \cup {[kind |-> "ok", err |-> "", has_content |-> TRUE, text |-> t] :
              t \in ReplyTexts}

\* not result or not result.strip()
IsEmptyResult(o) == ~o.has_content \/ \A i \in DOMAIN o.text : o.text[i] = " "

\* re.search(r'\{[\s\S]*\}', result): the span from the first opening brace
\* to the last closing brace after it; <<0, 0>> without a match.
JsonMatch(text) ==
    LET opens == {i \in DOMAIN text : text[i] = "{" \/ text[i] \in ObjectNames}
        closes == {i \in DOMAIN text : text[i] = "}" \/ text[i] \in ObjectNames}
        first == CHOOSE i \in opens : \A j \in opens : i <= j
        last == CHOOSE i \in closes : \A j \in closes : j <= i
    IN  IF opens = {} \/ closes = {}
        THEN <<0, 0>>
        ELSE IF first < last \/ (first = last /\ text[first] \in ObjectNames)
             THEN <<first, last>>
             ELSE <<0, 0>>

\* json.loads on the matched span: the object of a span that is one whole
\* object, the empty object for braces around blanks, else JSONDecodeError.
JsonLoads(span) ==
    IF Len(span) = 1 /\ span[1] \in ObjectNames
    THEN [ok |-> TRUE, value |-> ObjectValue(span[1])]
    ELSE IF /\ Len(span) >= 2
            /\ span[1] = "{"
            /\ span[Len(span)] = "}"
            /\ \A i \in 2..(Len(span) - 1) : span[i] = " "
         THEN [ok |-> TRUE, value |-> EmptyObject]
         ELSE [ok |-> FALSE, value |-> EmptyObject]

\* The report of a reply that cannot be used, without its synthetic issue.
ParseErrorReportNoIssue(reason, raw) ==
    [NoReport EXCEPT !.kind = "report", !.raw_output = raw]

\* The zeroed report with one synthetic parse_error issue; reason tells the
\* three messages apart (no JSON found, JSON decode failure, missing keys).
ParseErrorReport(reason, raw) ==
    [NoReport EXCEPT !.kind = "report",
                     !.issues = <<IssueDict("parse_error", reason)>>,
                     !.raw_output = raw]

\* The zeroed report after max_retries empty replies.
EmptyReplyReport == [NoReport EXCEPT !.kind = "report"]

\* The zeroed report after max_retries failed calls.
CallFailedReport(e) ==
    [NoReport EXCEPT !.kind = "report", !.error = e,
                     !.issues = <<IssueDict("validation_error", "call_failed")>>]

\* The legacy list keeping only the issue objects' messages.
LegacySuggestionsDictsOnly(items) ==
    LET dicts == SelectSeq(items, LAMBDA it : it.is_dict)
    IN  [i \in DOMAIN dicts |-> dicts[i].message]

\* [item["message"] if isinstance(item, dict) else item for item in ...]
LegacySuggestions(items) ==
    [i \in DOMAIN items |-> IF items[i].is_dict THEN items[i].message
                            ELSE items[i].text]

\* The part of validate_content after the retry loop: what it returns, or the
\* exception that leaves it.
ParseReport(reply) ==
    LET Return(r) == [act |-> "return", report |-> r, error |-> ""]
        Raise(e) == [act |-> "raise", report |-> NoReport, error |-> e]
        m == JsonMatch(reply)
    IN  IF m = <<0, 0>>
        THEN Return(ParseErrorReport("no_json", reply))
        ELSE LET loaded == JsonLoads(SubSeq(reply, m[1], m[2]))
                 data == loaded.value
             IN  IF ~loaded.ok
                 THEN Return(ParseErrorReport("json_decode", reply))
                 ELSE IF ~(RequiredKeys \subseteq data.keys)
                 THEN Return(ParseErrorReport("missing_keys", reply))
                 ELSE IF ~data.suggestions.is_list
                 THEN Raise("TypeError")
                 ELSE IF \E i \in DOMAIN data.suggestions.items :
                            /\ data.suggestions.items[i].is_dict
                            /\ ~data.suggestions.items[i].has_message
                 THEN Raise("KeyError")
                 ELSE Return([kind |-> "report",
                              scores |-> [grammar |-> data.grammar_score,
                                          human |-> data.human_score,
                                          seo |-> data.seo_score],
                              has_faq |-> data.has_faq,
                              issues |-> data.suggestions.items,
                              legacy |-> TRUE,
                              grammar_score |-> data.grammar_score,
                              human_score |-> data.human_score,
                              seo_score |-> data.seo_score,
                              suggestions |-> LegacySuggestions(data.suggestions.items),
                              error |-> "",
                              raw_output |-> <<>>])

\* attempt < max_retries - 1
ValidatorShouldRetry(att) == att < ValidatorMaxRetries - 1

\* The sleep doubling from two seconds.
ValidatorBackoffFromTwo(att) == 2 ^ (att + 1)

\* asyncio.sleep(2 ** attempt)
ValidatorBackoff(att) == 2 ^ att

\* validate_content(content) is called.
ValidateStart ==
    /\ v_pc = "idle"
    /\ v_pc' = "call"
    /\ UNCHANGED <<settings, tvars, xvars, ppvars, wvars, cvars, fvars, dvars, gvars, avars, pvars, v_attempt, v_calls, v_sleeps, v_last,
                   v_result, v_report, v_error>>

\* validate_content: one provider call and what follows it up to the backoff
\* sleep, the return or the exception.
ValidateCall(o) ==
    /\ v_pc = "call"
    /\ v_calls' = v_calls + 1
    /\ v_result' = IF o.kind = "error" THEN v_result ELSE o.text
    /\ IF o.kind = "error" \/ IsEmptyResult(o)
       THEN /\ v_last' = IF o.kind = "error" THEN "error" ELSE "empty"
            /\ IF ValidatorShouldRetry(v_attempt)
               THEN /\ v_pc' = "sleep"
                    /\ v_sleeps' = Append(v_sleeps, ValidatorBackoff(v_attempt))
                    /\ UNCHANGED <<v_report, v_error>>
               ELSE /\ v_pc' = "returned"
                    /\ v_report' = IF o.kind = "error" THEN CallFailedReport(o.err)
                                   ELSE EmptyReplyReport
                    /\ UNCHANGED <<v_sleeps, v_error>>
       ELSE LET r == ParseReport(o.text)
            IN  /\ v_last' = "text"
                /\ v_pc' = IF r.act = "return" THEN "returned" ELSE "raised"
                /\ v_report' = r.report
                /\ v_error' = r.error
                /\ UNCHANGED v_sleeps
    /\ UNCHANGED <<settings, tvars, xvars, ppvars, wvars, cvars, fvars, dvars, gvars, avars, pvars, v_attempt>>

\* validate_content: the backoff sleep ends and the loop continues.
ValidateSleep ==
    /\ v_pc = "sleep"
    /\ v_pc' = "call"
    /\ v_attempt' = v_attempt + 1
    /\ UNCHANGED <<settings, tvars, xvars, ppvars, wvars, cvars, fvars, dvars, gvars, avars, pvars, v_calls, v_sleeps, v_last, v_result,
                   v_report, v_error>>

NextValidator ==
    \/ ValidateStart
    \/ v_pc = "call" /\ \E o \in ValidatorOutcomes : ValidateCall(o)
    \/ ValidateSleep

SpecValidator == InitParams /\ [][NextValidator]_vars

\* ------------------------------------------- calculate_keyword_density
\* The backtick character, written ~ here: a TLA+ string cannot hold a backtick.
Backtick == "~"
Fence == <<Backtick, Backtick, Backtick>>
MarkdownChars == {"#", "*", Backtick, "[", "]", "(", ")"}

RECURSIVE Flatten(_)
\* The text made of the pieces in order.
Flatten(pieces) ==
    IF pieces = <<>> THEN <<>> ELSE Head(pieces) \o Flatten(Tail(pieces))

\* The pieces contents are made of: lower- and upper-case letters, a blank, a
\* markdown mark and a code fence.
Pieces == {<<"a">>, <<"A">>, <<"b">>, <<" ">>, <<"#">>, Fence}

\* 100 words that hold the two-word phrase "a b" exactly twice.
HundredWords ==
    [i \in 1..199 |->
        IF i % 2 = 0 THEN " "
        ELSE IF i \in {1, 197} THEN "a"
        ELSE IF i \in {3, 199} THEN "b"
        ELSE "c"]

Contents ==
    {Flatten(ps) : ps \in UNION {[1..n -> Pieces] : n \in 0..MaxPieces}}
        \cup {HundredWords}

\* Focus phrases: none, a word, a word that overlaps itself, two words.
Keyphrases == {<<>>, <<"a">>, <<"a", "a">>, <<"a", " ", "b">>}

\* The index of the first code fence of s at or after position i; 0 if none.
FenceFrom(s, i) ==
    LET at == {j \in i..(Len(s) - 2) : SubSeq(s, j, j + 2) = Fence}
    IN  IF at = {} THEN 0 ELSE CHOOSE j \in at : \A k \in at : j <= k

RECURSIVE RemoveCodeBlocks(_)
\* re.sub of a fenced code block by nothing: every fence up to the next fence
\* after it goes; a fence without a closing one stays.
RemoveCodeBlocks(s) ==
    LET open == FenceFrom(s, 1)
        close == IF open = 0 THEN 0 ELSE FenceFrom(s, open + 3)
    IN  IF close = 0
        THEN s
        ELSE SubSeq(s, 1, open - 1) \o RemoveCodeBlocks(SubSeq(s, close + 3, Len(s)))

\* re.sub of every markdown mark of content_no_code by nothing
RemoveMarkdown(s) ==
    LET kept == {i \in DOMAIN s : s[i] \notin MarkdownChars}
    IN  [k \in 1..Cardinality(kept) |->
            s[CHOOSE i \in kept : Cardinality({j \in kept : j <= i}) = k]]

\* clean_text
CleanText(s) == RemoveMarkdown(RemoveCodeBlocks(s))

\* len(clean_text.split()): the words of s, one for every character that
\* starts a run of characters other than whitespace.
SplitCount(s) ==
    Cardinality({i \in DOMAIN s :
                    s[i] \notin Blanks /\ (i = 1 \/ s[i - 1] \in Blanks)})

\* str.lower on a text held as a sequence of characters
LowerText(s) == [i \in DOMAIN s |-> LowerChar(s[i])]

RECURSIVE StrCountFrom(_, _, _)
\* The occurrences of p in s at or after position i, counted from the left
\* without overlap: the first one, then those after its end.
StrCountFrom(s, p, i) ==
    LET at == {j \in i..(Len(s) - Len(p) + 1) : SubSeq(s, j, j + Len(p) - 1) = p}
        first == CHOOSE j \in at : \A k \in at : j <= k
    IN  IF at = {} THEN 0 ELSE 1 + StrCountFrom(s, p, first + Len(p))

\* str.count for a non-empty p
StrCount(s, p) == StrCountFrom(s, p, 1)

\* The count comparing letters as they are written.
KeywordCountCaseSensitive(clean_text, keyphrase) == StrCount(clean_text, keyphrase)

\* keyword_count = clean_text.lower().count(keyphrase.lower())
KeywordCount(clean_text, keyphrase) ==
    StrCount(LowerText(clean_text), LowerText(keyphrase))

\* round(n / d, 0) as Python rounds: to the nearest integer, a tie to the
\* even one (n >= 0, d > 0).
RoundHalfEven(n, d) ==
    LET q == n \div d
        r == n % d
    IN  IF 2 * r < d THEN q
        ELSE IF 2 * r > d THEN q + 1
        ELSE IF q % 2 = 0 THEN q ELSE q + 1

\* calculate_keyword_density, in hundredths of a percent (2.00 is 200).
CalculateKeywordDensity(text, keyphrase) ==
    IF keyphrase = <<>> \/ text = <<>>
    THEN 0
    ELSE LET clean_text == CleanText(text)
             total_words == SplitCount(clean_text)
         IN  IF total_words = 0
             THEN 0
             ELSE RoundHalfEven(KeywordCount(clean_text, keyphrase) * 10000, total_words)

\* calculate_keyword_density(content, keyphrase) is called and returns.
DensityCall(c, k) ==
    /\ d_pc = "idle"
    /\ d_pc' = "done"
    /\ d_content' = c
    /\ d_keyphrase' = k
    /\ d_density' = CalculateKeywordDensity(c, k)
    /\ UNCHANGED <<settings, tvars, xvars, ppvars, wvars, cvars, fvars, gvars, avars, pvars, vvars>>

\* The caller has the value; the function can be called again.
DensityDone ==
    /\ d_pc = "done"
    /\ d_pc' = "idle"
    /\ d_content' = <<>>
    /\ d_keyphrase' = <<>>
    /\ d_density' = 0
    /\ UNCHANGED <<settings, tvars, xvars, ppvars, wvars, cvars, fvars, gvars, avars, pvars, vvars>>

NextDensity ==
    \/ d_pc = "idle" /\ \E c \in Contents, k \in Keyphrases : DensityCall(c, k)
    \/ DensityDone

SpecDensity == InitParams /\ [][NextDensity]_vars

\* ------------------------------------------------------------ fix_content
FaqHeading == <<"#", "#", " ", "F", "A", "Q">>

\* The pieces the fixer's texts are made of.
FixPieces == {<<"w">>, <<" ">>, <<Backtick>>, FaqHeading}
FixTexts == {Flatten(ps) : ps \in UNION {[1..n -> FixPieces] : n \in 0..MaxFixPieces}}

\* The contents handed to fix_content: without and with an FAQ section.
FixContents == {<<"w">>, <<"w", " ">> \o FaqHeading}

\* metadata.get('focus_keyphrase', ''): no focus phrase, or the word "w".
FocusKeyphrases == {<<>>, <<"w">>}

\* The issue lists of the reports: none, one typed issue, the same type
\* twice, a type the legacy heuristics also derive, a score flag, a bare text.
FixIssueLists ==
    {<<>>,
     <<IssueDict("ai_tone", "m")>>,
     <<IssueDict("ai_tone", "m"), IssueDict("ai_tone", "m")>>,
     <<IssueDict("faq_missing", "m")>>,
     <<IssueDict("grammar_improvement", "m"), IssueDict("seo_optimization", "m")>>,
     <<BareText("m")>>}

\* The grammar scores around the two thresholds (7 and 8), and null.
GrammarScores == {IntScore(6), IntScore(7), IntScore(8), NullScore}
\* human and seo, each below or above the threshold.
OtherScores == {<<8, 8>>, <<6, 8>>, <<8, 6>>}

\* The validation reports: the structured view, the legacy flat view or both.
FixReports ==
    {[has_scores |-> view[1], has_flat |-> view[2], grammar |-> g,
      human |-> IntScore(hs[1]), seo |-> IntScore(hs[2]), has_faq |-> faq,
      issues |-> issues] :
        view \in {<<TRUE, FALSE>>, <<FALSE, TRUE>>, <<TRUE, TRUE>>},
        g \in GrammarScores, hs \in OtherScores, faq \in BOOLEAN,
        issues \in FixIssueLists}

\* chat.completions.create: raises, or message.content is None or a text.
FixOutcomes ==
    {[kind |-> "error", content |-> None]}
      \cup {[kind |-> "ok", content |-> c] :
               c \in {None} \cup {Some(t) : t \in FixTexts}}

\* The characters of s at the positions in kept, in order.
SelectAt(s, kept) ==
    [k \in 1..Cardinality(kept) |->
        s[CHOOSE i \in kept : Cardinality({j \in kept : j <= i}) = k]]

\* scores.get(key, validation_report.get(flat_key, 10)) in extract_fix_needs
ScoreOrTen(report, score) ==
    IF report.has_scores \/ report.has_flat THEN score ELSE IntScore(10)

\* The types of the issues that are dicts with a 'type', in order.
IssueTypes(issues) ==
    LET typed == SelectSeq(issues, LAMBDA issue : issue.is_dict /\ issue.type # "")
    IN  [k \in DOMAIN typed |-> typed[k].type]

InSeq(x, seq) == \E k \in DOMAIN seq : seq[k] = x

\* if score < 7 and flag not in fix_needs: fix_needs.append(flag)
AppendBelowSeven(needs, score, flag) ==
    IF score.val < 7 /\ ~InSeq(flag, needs) THEN Append(needs, flag) ELSE needs

\* extract_fix_needs: the list, or raised when a score is compared that is
\* not a number (TypeError).
ExtractFixNeeds(report) ==
    LET grammar == ScoreOrTen(report, report.grammar)
        human == ScoreOrTen(report, report.human)
        seo == ScoreOrTen(report, report.seo)
        types == IssueTypes(report.issues)
        with_faq == IF ~report.has_faq /\ ~InSeq("faq_missing", types)
                    THEN Append(types, "faq_missing") ELSE types
        g == AppendBelowSeven(with_faq, grammar, "grammar_improvement")
        h == AppendBelowSeven(g, human, "humanize_content")
    IN  IF grammar.null \/ human.null \/ seo.null
        THEN [raised |-> TRUE, needs |-> <<>>]
        ELSE [raised |-> FALSE, needs |-> AppendBelowSeven(h, seo, "seo_optimization")]

\* validation_report.get('grammar_score', 0): the flat score only.
FlatGrammarOrZero(report) == IF report.has_flat THEN report.grammar ELSE IntScore(0)

\* re.sub(r' +', ' ', content)
CollapseSpaces(s) ==
    SelectAt(s, {i \in DOMAIN s : ~(s[i] = " " /\ i > 1 /\ s[i - 1] = " ")})

\* re.sub(r'\n{3,}', '\n\n', content)
CollapseNewlines(s) ==
    SelectAt(s, {i \in DOMAIN s :
                    ~(s[i] = Newline /\ i > 2 /\ s[i - 1] = Newline /\ s[i - 2] = Newline)})

\* The backticks with no backtick next to them are removed.
RemoveLoneBackticks(s) ==
    SelectAt(s, {i \in DOMAIN s :
                    ~(/\ s[i] = Backtick
                      /\ (i = 1 \/ s[i - 1] # Backtick)
                      /\ (i = Len(s) \/ s[i + 1] # Backtick))})

\* line.rstrip() for every line: the whitespace at the end of a line goes.
RStripLines(s) ==
    SelectAt(s, {i \in DOMAIN s :
                    ~(/\ s[i] \in Whitespace
                      /\ \E j \in i..Len(s) :
                            /\ \A k \in i..j : s[k] \in Whitespace
                            /\ (j = Len(s) \/ s[j + 1] = Newline))})

\* str.strip() of a text that may hold newlines
StripLines(s) ==
    LET inner == {i \in DOMAIN s : s[i] \notin Blanks}
    IN  SelectAt(s, {i \in DOMAIN s : \E a, b \in inner : a <= i /\ i <= b})

\* post_process_content
PostProcessContent(s) ==
    StripLines(RStripLines(RemoveLoneBackticks(CollapseNewlines(CollapseSpaces(s)))))

\* re.search of '##', any whitespace and 'FAQ' without regard to case
HasFaqHeading(s) ==
    \E i \in DOMAIN s, j \in DOMAIN s :
        /\ i + 2 <= j
        /\ j + 2 <= Len(s)
        /\ s[i] = "#" /\ s[i + 1] = "#"
        /\ \A k \in (i + 2)..(j - 1) : s[k] \in Blanks
        /\ LowerText(SubSeq(s, j, j + 2)) = <<"f", "a", "q">>

\* added_faq = not had_faq and now_has_faq
AddedFaq(report, fixed) == ~report.has_faq /\ HasFaqHeading(fixed)

\* fix_summary of the corrected content
FixSummary(needs, added_faq, keyphrase, density) ==
    LET entries ==
            (IF added_faq THEN <<"faq_added">> ELSE <<>>)
         \o (IF InSeq("grammar_improvement", needs) THEN <<"grammar_improved">> ELSE <<>>)
         \o (IF InSeq("humanize_content", needs) THEN <<"humanized">> ELSE <<>>)
         \o (IF InSeq("seo_optimization", needs) THEN <<"seo_optimized">> ELSE <<>>)
         \o (IF keyphrase # <<>> THEN <<"density_adjusted">> ELSE <<>>)
         \o (IF keyphrase # <<>> /\ (density < 150 \/ density > 250)
             THEN <<"density_out_of_range">> ELSE <<>>)
    IN  IF entries = <<>> THEN <<"overall_quality_improved">> ELSE entries

\* The dict returned with the original content and one summary entry.
OriginalResult(text, keyphrase, note, added_faq) ==
    [fixed_content |-> text, fix_summary |-> <<note>>, added_FAQ |-> added_faq,
     keyword_density |-> CalculateKeywordDensity(text, keyphrase)]

\* fix_content from the provider call on: an exception of the call or of
\* reading the reply (content None) is caught, an empty reply gives the
\* original back, any other reply is post-processed and returned.
FixReply(text, report, keyphrase, needs, o) ==
    IF o.kind = "error" \/ ~o.content.some
    THEN OriginalResult(text, keyphrase, "fix_failed", FALSE)
    ELSE LET stripped == StripLines(o.content.val)
             fixed == PostProcessContent(stripped)
             added == AddedFaq(report, fixed)
             density == CalculateKeywordDensity(fixed, keyphrase)
         IN  IF stripped = <<>>
             THEN OriginalResult(text, keyphrase, "empty_response", FALSE)
             ELSE [fixed_content |-> fixed,
                   fix_summary |-> FixSummary(needs, added, keyphrase, density),
                   added_FAQ |-> added, keyword_density |-> density]

\* fix_content up to the provider call: the fix needs are derived; with none
\* and a flat grammar score of 8 or more the original is returned at once;
\* a score that is not a number raises before the try block is entered.
FixStart(c, report, keyphrase) ==
    LET extracted == ExtractFixNeeds(report)
        flat == FlatGrammarOrZero(report)
    IN  /\ f_pc = "idle"
        /\ f_content' = c
        /\ f_report' = report
        /\ f_keyphrase' = keyphrase
        /\ f_needs' = extracted.needs
        /\ f_calls' = 0
        /\ f_last' = NoFixOutcome
        /\ IF extracted.raised \/ (extracted.needs = <<>> /\ flat.null)
           THEN /\ f_pc' = "raised"
                /\ f_error' = "TypeError"
                /\ f_result' = NoFixResult
           ELSE IF extracted.needs = <<>> /\ flat.val >= 8
                THEN /\ f_pc' = "returned"
                     /\ f_error' = ""
                     /\ f_result' = OriginalResult(c, keyphrase, "no_fix_needed",
                                                   report.has_faq)
                ELSE /\ f_pc' = "call"
                     /\ f_error' = ""
                     /\ f_result' = NoFixResult
        /\ UNCHANGED <<settings, tvars, xvars, ppvars, wvars, cvars, gvars, avars, pvars, vvars, dvars>>

\* fix_content: the one provider call and everything after it.
FixCall(o) ==
    /\ f_pc = "call"
    /\ f_pc' = "returned"
    /\ f_calls' = f_calls + 1
    /\ f_last' = o
    /\ f_result' = FixReply(f_content, f_report, f_keyphrase, f_needs, o)
    /\ UNCHANGED <<settings, tvars, xvars, ppvars, wvars, cvars, gvars, avars, pvars, vvars, dvars, f_content, f_report,
                   f_keyphrase, f_needs, f_error>>

\* The caller has the result or the exception; fix_content can run again.
FixDone ==
    /\ f_pc \in {"returned", "raised"}
    /\ f_pc' = "idle"
    /\ f_content' = <<>>
    /\ f_report' = NoFixReport
    /\ f_keyphrase' = <<>>
    /\ f_needs' = <<>>
    /\ f_calls' = 0
    /\ f_last' = NoFixOutcome
    /\ f_result' = NoFixResult
    /\ f_error' = ""
    /\ UNCHANGED <<settings, tvars, xvars, ppvars, wvars, cvars, gvars, avars, pvars, vvars, dvars>>

NextFixer ==
    \/ f_pc = "idle" /\ \E c \in FixContents, report \in FixReports,
                           keyphrase \in FocusKeyphrases : FixStart(c, report, keyphrase)
    \/ f_pc = "call" /\ \E o \in FixOutcomes : FixCall(o)
    \/ FixDone

SpecFixer == InitParams /\ [][NextFixer]_vars

\* ------------------------------------------------ concurrent pipeline runs
\* The coroutines that run as tasks of one event loop.
RunKinds ==
    {"refine_topic", "generate_content", "validate_content", "fix_content", "complete"}

\* The topics of the concurrent runs: one that strip() leaves alone and one
\* it changes.
ConcurrentTopics == {<<"a">>, <<" ", "a">>}

\* The reports handed to concurrent fix_content runs: one that needs a fix
\* and one that does not.
ConcurrentReports ==
    {[has_scores |-> TRUE, has_flat |-> TRUE, grammar |-> IntScore(g),
      human |-> IntScore(8), seo |-> IntScore(8), has_faq |-> TRUE, issues |-> <<>>] :
        g \in {6, 8}}

\* metadata of the concurrent fix_content runs: focus_keyphrase "w".
ConcurrentKeyphrase == <<"w">>

\* The calls that start a run: the coroutine and its arguments
\* (generate_content with the topic strip() changes).
ConcurrentCalls ==
    {[kind |-> "refine_topic", text |-> t, report |-> NoFixReport] :
        t \in ConcurrentTopics}
      \cup {[kind |-> "generate_content", text |-> <<" ", "a">>, report |-> NoFixReport]}
      \cup {[kind |-> k, text |-> <<"w">>, report |-> NoFixReport] :
              k \in {"validate_content", "complete"}}
      \cup {[kind |-> "fix_content", text |-> <<"w">>, report |-> rep] :
              rep \in ConcurrentReports}

\* What the provider answers a concurrent run at each of its calls.
\* refine_topic: a rate limit, the topic again, a question title.
ConcurrentOutcomes ==
    {ErrorOutcome("RateLimitError"),
     [kind |-> "ok", err |-> "", content |-> Some(<<"a">>), blocks |-> <<>>],
     [kind |-> "ok", err |-> "", content |-> Some(<<"a", "?">>), blocks |-> <<>>]}

\* try_model: a rate limit or a text, from either provider.
ConcurrentGenOutcomes(model) ==
    {o \in OutcomesFor(model) :
        /\ o.kind = "error" => o.err = "RateLimitError"
        /\ o.kind = "ok" =>
              IF model = "GPT"
              THEN o.content = Some(<<"a">>) /\ o.has_usage
              ELSE Len(o.blocks) = 1 /\ o.blocks[1].has_text /\ o.blocks[1].text = <<"a">>}

\* validate_content: a rate limit, no content, prose, a report.
ConcurrentValidatorOutcomes ==
    {o \in ValidatorOutcomes :
        /\ o.kind = "error" => o.err = "RateLimitError"
        /\ o.text \in {<<>>, <<"x">>, <<"good">>}}

\* fix_content: the call raises, or answers a text.
ConcurrentFixOutcomes ==
    {o \in FixOutcomes : o.kind = "ok" => o.content = Some(<<"w">>)}

\* OpenAIClient.complete: a transient error, another error, a text.
ConcurrentCompleteOutcomes ==
    {o \in OpenAIOutcomes :
        /\ o.kind = "error" => o.err \in {"RateLimitError", "BadRequestError"}
        /\ o.kind = "ok" => o.content = Some(<<"a">>)}

\* get_openai_client(): the module's client, created on first use.
GetOpenAIClient(client) == IF client = "None" THEN "AsyncOpenAI" ELSE client

\* The loop variable kept in one module-level variable that every task uses.
AttemptCellModuleLevel(r) == 1

\* `attempt` is bound by the for statement inside the coroutine: a local of
\* the task's own frame, one cell for each run.
AttemptCell(r) == r

\* The request a concurrent complete() run is called with names no model.
ConcurrentModel == ResolveModel("openai", "")

\* A coroutine is called as task r and runs up to its first suspension
\* point: refine_topic and generate_content up to the provider call of
\* refine_topic (get_openai_client() included), validate_content and
\* complete up to their provider call, fix_content up to its provider call
\* or, with nothing to fix or a score of None, to its return or raise.
ConcurrentStart(r, call) ==
    LET extracted == ExtractFixNeeds(call.report)
        flat == FlatGrammarOrZero(call.report)
    IN  /\ c_pc[r] = "idle"
        /\ c_kind' = [c_kind EXCEPT ![r] = call.kind]
        /\ c_topic' = [c_topic EXCEPT ![r] = call.text]
        /\ c_report' = [c_report EXCEPT ![r] = call.report]
        /\ IF call.kind = "fix_content"
           THEN /\ UNCHANGED <<c_attempt, openai_client>>
                /\ IF extracted.raised \/ (extracted.needs = <<>> /\ flat.null)
                   THEN /\ c_pc' = [c_pc EXCEPT ![r] = "raised"]
                        /\ c_result' = [c_result EXCEPT ![r].error.type = "TypeError"]
                   ELSE IF extracted.needs = <<>> /\ flat.val >= 8
                   THEN /\ c_pc' = [c_pc EXCEPT ![r] = "returned"]
                        /\ c_result' = [c_result EXCEPT ![r].fix =
                              OriginalResult(call.text, ConcurrentKeyphrase,
                                             "no_fix_needed", call.report.has_faq)]
                   ELSE /\ c_pc' = [c_pc EXCEPT ![r] = "fix"]
                        /\ UNCHANGED c_result
           ELSE /\ c_attempt' = [c_attempt EXCEPT ![AttemptCell(r)] = 0]
                /\ c_pc' = [c_pc EXCEPT ![r] =
                      CASE call.kind = "validate_content" -> "validate"
                        [] call.kind = "complete" -> "complete"
                        [] OTHER -> "refine"]
                /\ openai_client' =
                      IF call.kind \in {"refine_topic", "generate_content"}
                      THEN GetOpenAIClient(openai_client) ELSE openai_client
                /\ UNCHANGED c_result
        /\ UNCHANGED <<settings, tvars, xvars, ppvars, wvars, pvars, vvars, dvars, fvars, gvars, avars,
                       c_outcomes, c_sleeps, c_title>>

\* The provider call of refine_topic in run r completes: what follows it up
\* to the next suspension point or the return.  In a generate_content run
\* the return goes on to the prompt, the start event and the call of
\* try_model.
ConcurrentRefineCall(r, o) ==
    /\ c_pc[r] = "refine"
    /\ c_outcomes' = [c_outcomes EXCEPT ![r] = Append(@, o)]
    /\ LET step == RefineTopicAttempt(settings, c_topic[r], c_attempt[AttemptCell(r)], o)
       IN  IF step.act = "sleep"
           THEN /\ c_pc' = [c_pc EXCEPT ![r] = "refine_sleep"]
                /\ c_sleeps' = [c_sleeps EXCEPT ![r] = Append(@, step.wait)]
                /\ UNCHANGED <<c_title, c_result, c_attempt, events>>
           ELSE /\ c_title' = [c_title EXCEPT ![r] = GeneratedTopic(c_topic[r], step)]
                /\ UNCHANGED c_sleeps
                /\ IF c_kind[r] = "refine_topic"
                   THEN /\ c_pc' = [c_pc EXCEPT ![r] = "returned"]
                        /\ c_result' = [c_result EXCEPT ![r].text = step.val]
                        /\ UNCHANGED <<c_attempt, events>>
                   ELSE /\ c_pc' = [c_pc EXCEPT ![r] = "attempt"]
                        /\ c_attempt' = [c_attempt EXCEPT ![AttemptCell(r)] = 1]
                        /\ events' = Append(events, StartEvent(settings, 1))
                        /\ UNCHANGED c_result
    /\ UNCHANGED <<settings, tvars, xvars, ppvars, wvars, pvars, vvars, dvars, fvars, grunvars, avars, openai_client,
                   c_kind, c_topic, c_report>>

\* The provider call of try_model in run r completes: the rest of the loop
\* iteration of generate_content, up to the return, the backoff sleep or the
\* final raise.
ConcurrentGenerateCall(r, o) ==
    /\ c_pc[r] = "attempt"
    /\ c_outcomes' = [c_outcomes EXCEPT ![r] = Append(@, o)]
    /\ LET seq == ModelSequence(settings)
           att == c_attempt[AttemptCell(r)]
           ret == TryModel(seq[att], o).ret
       IN  /\ o \in OutcomesFor(seq[att])
           /\ events' = events \o AttemptEvents(settings, att, o)
           /\ IF Truthy(ret)
              THEN /\ c_pc' = [c_pc EXCEPT ![r] = "returned"]
                   /\ c_result' = [c_result EXCEPT ![r].text = ret.val]
                   /\ UNCHANGED c_sleeps
              ELSE IF att < Len(seq)
              THEN /\ c_pc' = [c_pc EXCEPT ![r] = "sleep"]
                   /\ c_sleeps' = [c_sleeps EXCEPT ![r] =
                                      Append(@, GenBackoff(settings, att))]
                   /\ UNCHANGED c_result
              ELSE /\ c_pc' = [c_pc EXCEPT ![r] = "raised"]
                   /\ c_result' = [c_result EXCEPT ![r].error.type =
                                      TotalFailError(c_topic[r], c_title[r]).type]
                   /\ UNCHANGED c_sleeps
    /\ UNCHANGED <<settings, tvars, xvars, ppvars, wvars, pvars, vvars, dvars, fvars, grunvars, avars, openai_client,
                   c_kind, c_topic, c_report, c_attempt, c_title>>

\* The provider call of validate_content in run r completes: the rest of the
\* loop iteration and, after a reply with text, the parse block.
ConcurrentValidateCall(r, o) ==
    /\ c_pc[r] = "validate"
    /\ c_outcomes' = [c_outcomes EXCEPT ![r] = Append(@, o)]
    /\ IF o.kind = "error" \/ IsEmptyResult(o)
       THEN IF ValidatorShouldRetry(c_attempt[AttemptCell(r)])
            THEN /\ c_pc' = [c_pc EXCEPT ![r] = "validate_sleep"]
                 /\ c_sleeps' = [c_sleeps EXCEPT ![r] =
                       Append(@, ValidatorBackoff(c_attempt[AttemptCell(r)]))]
                 /\ UNCHANGED c_result
            ELSE /\ c_pc' = [c_pc EXCEPT ![r] = "returned"]
                 /\ c_result' = [c_result EXCEPT ![r].report =
                       IF o.kind = "error" THEN CallFailedReport(o.err)
                       ELSE EmptyReplyReport]
                 /\ UNCHANGED c_sleeps
       ELSE LET p == ParseReport(o.text)
            IN  /\ c_pc' = [c_pc EXCEPT ![r] =
                      IF p.act = "return" THEN "returned" ELSE "raised"]
                /\ c_result' = [c_result EXCEPT ![r].report = p.report,
                                                ![r].error.type = p.error]
                /\ UNCHANGED c_sleeps
    /\ UNCHANGED <<settings, tvars, xvars, ppvars, wvars, pvars, vvars, dvars, fvars, gvars, avars, openai_client,
                   c_kind, c_topic, c_report, c_attempt, c_title>>

\* The provider call of fix_content in run r completes: everything after it.
ConcurrentFixCall(r, o) ==
    /\ c_pc[r] = "fix"
    /\ c_outcomes' = [c_outcomes EXCEPT ![r] = Append(@, o)]
    /\ c_pc' = [c_pc EXCEPT ![r] = "returned"]
    /\ c_result' = [c_result EXCEPT ![r].fix =
          FixReply(c_topic[r], c_report[r], ConcurrentKeyphrase,
                   ExtractFixNeeds(c_report[r]).needs, o)]
    /\ UNCHANGED <<settings, tvars, xvars, ppvars, wvars, pvars, vvars, dvars, fvars, gvars, avars, openai_client,
                   c_kind, c_topic, c_report, c_attempt, c_sleeps, c_title>>

\* The provider call of complete() in run r completes: what follows it up to
\* the return, the raise or the backoff sleep; a response with content is
\* written to the usage log.
ConcurrentCompleteCall(r, o) ==
    /\ c_pc[r] = "complete"
    /\ c_outcomes' = [c_outcomes EXCEPT ![r] = Append(@, o)]
    /\ LET step == CompleteAttempt(settings, "openai", ConcurrentModel,
                                   c_attempt[AttemptCell(r)], o, NoUsage)
       IN  /\ a_log' = a_log \o step.log
           /\ c_pc' = [c_pc EXCEPT ![r] =
                 CASE step.act = "sleep" -> "complete_sleep"
                   [] step.act = "return" -> "returned"
                   [] OTHER -> "raised"]
           /\ c_sleeps' = [c_sleeps EXCEPT ![r] =
                 IF step.act = "sleep" THEN Append(@, step.wait) ELSE @]
           /\ c_result' = [c_result EXCEPT ![r].resp = step.resp,
                                           ![r].error = step.error]
    /\ UNCHANGED <<settings, tvars, xvars, ppvars, wvars, pvars, vvars, dvars, fvars, gvars, arunvars, openai_client,
                   c_kind, c_topic, c_report, c_attempt, c_title>>

\* A backoff sleep of run r ends: its loop takes the next iteration and runs
\* up to the provider call (refine_topic through get_openai_client(), the
\* generation loop after its start event).
ConcurrentSleep(r) ==
    /\ c_pc[r] \in {"refine_sleep", "sleep", "validate_sleep", "complete_sleep"}
    /\ c_attempt' = [c_attempt EXCEPT ![AttemptCell(r)] = @ + 1]
    /\ c_pc' = [c_pc EXCEPT ![r] =
          CASE c_pc[r] = "refine_sleep" -> "refine"
            [] c_pc[r] = "sleep" -> "attempt"
            [] c_pc[r] = "validate_sleep" -> "validate"
            [] OTHER -> "complete"]
    /\ events' = IF c_pc[r] = "sleep"
                 THEN Append(events,
                             StartEvent(settings, c_attempt[AttemptCell(r)] + 1))
                 ELSE events
    /\ openai_client' = IF c_pc[r] = "refine_sleep"
                        THEN GetOpenAIClient(openai_client) ELSE openai_client
    /\ UNCHANGED <<settings, tvars, xvars, ppvars, wvars, pvars, vvars, dvars, fvars, grunvars, avars,
                   c_kind, c_topic, c_report, c_outcomes, c_sleeps, c_title, c_result>>

NextConcurrent ==
    \/ \E r \in Runs : c_pc[r] = "idle" /\ \E call \in ConcurrentCalls :
          ConcurrentStart(r, call)
    \/ \E r \in Runs : c_pc[r] = "refine" /\ \E o \in ConcurrentOutcomes :
          ConcurrentRefineCall(r, o)
    \/ \E r \in Runs : c_pc[r] = "attempt" /\
          \E o \in ConcurrentGenOutcomes(ModelSequence(settings)[c_attempt[AttemptCell(r)]]) :
             ConcurrentGenerateCall(r, o)
    \/ \E r \in Runs : c_pc[r] = "validate" /\ \E o \in ConcurrentValidatorOutcomes :
          ConcurrentValidateCall(r, o)
    \/ \E r \in Runs : c_pc[r] = "fix" /\ \E o \in ConcurrentFixOutcomes :
          ConcurrentFixCall(r, o)
    \/ \E r \in Runs : c_pc[r] = "complete" /\ \E o \in ConcurrentCompleteOutcomes :
          ConcurrentCompleteCall(r, o)
    \/ \E r \in Runs : ConcurrentSleep(r)

SpecConcurrent == InitParams /\ [][NextConcurrent]_vars

\* ------------------------------------------- fixer.post_process_content
\* Rewritten texts handed to post_process_content: a word character, the
\* space, the newline and the backtick, in every order.
MaxPostLen == 5
PostChars == {"w", " ", Newline, Backtick}
PostTexts == UNION {[1..n -> PostChars] : n \in 0..MaxPostLen}

\* post_process_content(content) is called and returns.
PostProcessCall(c) ==
    /\ pp_pc = "idle"
    /\ pp_pc' = "done"
    /\ pp_content' = c
    /\ pp_result' = PostProcessContent(c)
    /\ UNCHANGED <<settings, tvars, xvars, gvars, avars, pvars, vvars, dvars, fvars, cvars, wvars>>

\* The caller takes the text; the function is ready for the next call.
PostProcessDone ==
    /\ pp_pc = "done"
    /\ pp_pc' = "idle"
    /\ pp_content' = <<>>
    /\ pp_result' = <<>>
    /\ UNCHANGED <<settings, tvars, xvars, gvars, avars, pvars, vvars, dvars, fvars, cvars, wvars>>

NextPostProcess ==
    \/ pp_pc = "idle" /\ \E c \in PostTexts : PostProcessCall(c)
    \/ PostProcessDone

SpecPostProcess == InitParams /\ [][NextPostProcess]_vars

\* ------------------------------------- exceptions.exception_to_http_exception
\* The exception classes of core.exceptions, each with its base class.
ExceptionBases ==
    [PotensiaAIError |-> "Exception",
     APIError |-> "PotensiaAIError",
     ValidationError |-> "APIError",
     ResourceNotFoundError |-> "APIError",
     AuthenticationError |-> "APIError",
     AuthorizationError |-> "APIError",
     RateLimitExceeded |-> "APIError",
     AIProviderError |-> "PotensiaAIError",
     OpenAIError |-> "AIProviderError",
     AnthropicError |-> "AIProviderError",
     GeminiError |-> "AIProviderError",
     AITimeoutError |-> "AIProviderError",
     AIQuotaExceeded |-> "AIProviderError",
     ContentGenerationError |-> "PotensiaAIError",
     TopicRefinementError |-> "ContentGenerationError",
     ContentValidationError |-> "ContentGenerationError",
     KeywordExtractionError |-> "ContentGenerationError",
     ImageGenerationError |-> "ContentGenerationError",
     SecurityError |-> "PotensiaAIError",
     PromptInjectionDetected |-> "SecurityError",
     MaliciousContentDetected |-> "SecurityError"]

ExceptionClasses == DOMAIN ExceptionBases

\* The error_code each class passes to PotensiaAIError.__init__; the classes
\* without an __init__ of their own fall back to the class name.
ErrorCodes ==
    [ValidationError |-> "VALIDATION_ERROR",
     ResourceNotFoundError |-> "RESOURCE_NOT_FOUND",
     AuthenticationError |-> "AUTHENTICATION_ERROR",
     AuthorizationError |-> "AUTHORIZATION_ERROR",
     RateLimitExceeded |-> "RATE_LIMIT_EXCEEDED",
     OpenAIError |-> "OPENAI_ERROR",
     AnthropicError |-> "ANTHROPIC_ERROR",
     GeminiError |-> "GEMINI_ERROR",
     AITimeoutError |-> "AI_TIMEOUT",
     AIQuotaExceeded |-> "AI_QUOTA_EXCEEDED",
     TopicRefinementError |-> "TOPIC_REFINEMENT_ERROR",
     ContentValidationError |-> "CONTENT_VALIDATION_ERROR",
     KeywordExtractionError |-> "KEYWORD_EXTRACTION_ERROR",
     ImageGenerationError |-> "IMAGE_GENERATION_ERROR",
     PromptInjectionDetected |-> "PROMPT_INJECTION_DETECTED",
     MaliciousContentDetected |-> "MALICIOUS_CONTENT"]
        @@ [c \in ExceptionClasses |-> c]

\* Messages an exception is raised with.
ExceptionMessages == {"m1", "m2", "m3", "m4", "m5", "m6"}

\* The exceptions the application raises: an instance of a class, with its
\* message and error code.
Exceptions ==
    {[class |-> c, message |-> m, error_code |-> ErrorCodes[c]] :
        c \in ExceptionClasses, m \in ExceptionMessages}

EXCEPTION_STATUS_MAP ==
    [ValidationError |-> 400,
     ResourceNotFoundError |-> 404,
     AuthenticationError |-> 401,
     AuthorizationError |-> 403,
     RateLimitExceeded |-> 429,
     AITimeoutError |-> 504,
     AIQuotaExceeded |-> 503,
     PromptInjectionDetected |-> 400,
     MaliciousContentDetected |-> 400,
     ContentGenerationError |-> 500,
     AIProviderError |-> 503,
     SecurityError |-> 403,
     APIError |-> 500,
     PotensiaAIError |-> 500]

\* EXCEPTION_STATUS_MAP.get(type(exc), status.HTTP_500_INTERNAL_SERVER_ERROR)
StatusCode(class) ==
    IF class \in DOMAIN EXCEPTION_STATUS_MAP THEN EXCEPTION_STATUS_MAP[class] ELSE 500

\* exc.to_dict(), without the details
ToDict(exc) == [error |-> exc.error_code, message |-> exc.message]

\* exception_to_http_exception(exc) is called and returns.
ExceptionToHttpException(exc) ==
    /\ x_pc = "idle"
    /\ x_pc' = "done"
    /\ x_exc' = exc
    /\ x_http' = [status_code |-> StatusCode(exc.class), detail |-> ToDict(exc)]
    /\ UNCHANGED <<settings, tvars, gvars, avars, pvars, vvars, dvars, fvars, cvars, wvars,
                   ppvars>>

\* The handler has answered; the next exception can be converted.
ExceptionHandled ==
    /\ x_pc = "done"
    /\ x_pc' = "idle"
    /\ x_exc' = NoException
    /\ x_http' = NoHttpException
    /\ UNCHANGED <<settings, tvars, gvars, avars, pvars, vvars, dvars, fvars, cvars, wvars,
                   ppvars>>

NextExceptions ==
    \/ x_pc = "idle" /\ \E exc \in Exceptions : ExceptionToHttpException(exc)
    \/ ExceptionHandled

SpecExceptions == InitParams /\ [][NextExceptions]_vars

\* ---------------------------------------------- validators.validate_topic
\* Stands for a control character that is not whitespace, such as \x00.
Nul == "^"

\* Topics over a letter, the space, the control character and the characters
\* of the special-token pattern.
MaxTopicLen == 5
TopicChars == {"a", " ", Nul, "<", "|", ">"}
RawTopics == UNION {[1..n -> TopicChars] : n \in 0..MaxTopicLen}

\* (min_length, max_length): the defaults, and limits the topics can exceed.
LengthLimits == {<<3, 500>>, <<2, 4>>}

\* re.sub of the control characters by the empty string
RemoveControlChars(s) == SelectAt(s, {i \in DOMAIN s : s[i] # Nul})

\* sanitize_input(text, max_length): the text returned, or the error raised.
SanitizeInput(text, max_length) ==
    IF text = <<>>
    THEN [error |-> "ValidationError", val |-> <<>>]
    ELSE LET cleaned == RemoveControlChars(Strip(text))
         IN  IF max_length # 0 /\ Len(cleaned) > max_length
             THEN [error |-> "ValidationError", val |-> <<>>]
             ELSE IF cleaned = <<>>
             THEN [error |-> "ValidationError", val |-> <<>>]
             ELSE [error |-> "", val |-> cleaned]

\* The special-token pattern of INJECTION_PATTERNS: an opening angle bracket
\* and bar, any characters, a bar and a closing angle bracket.  Every other
\* pattern needs letters that TopicChars does not hold.
MatchesInjectionPattern(s) ==
    \E i \in DOMAIN s, j \in DOMAIN s :
        /\ i + 2 <= j
        /\ j + 1 <= Len(s)
        /\ s[i] = "<" /\ s[i + 1] = "|"
        /\ s[j] = "|" /\ s[j + 1] = ">"

\* detect_prompt_injection(text, raise_error=True): whether it raises.
DetectPromptInjection(text) == text # <<>> /\ MatchesInjectionPattern(text)

\* validate_topic looking for injection patterns in the topic as given.
ValidateTopicDetectFirst(raw, min_length, max_length) ==
    LET clean == SanitizeInput(raw, max_length)
    IN  IF clean.error # ""
        THEN clean
        ELSE IF Len(clean.val) < min_length
        THEN [error |-> "ValidationError", val |-> <<>>]
        ELSE IF DetectPromptInjection(raw)
        THEN [error |-> "PromptInjectionDetected", val |-> <<>>]
        ELSE clean

\* validate_topic(topic, min_length, max_length): sanitize, check the minimum
\* length, then look for injection patterns in the sanitized topic.
ValidateTopic(raw, min_length, max_length) ==
    LET clean == SanitizeInput(raw, max_length)
    IN  IF clean.error # ""
        THEN clean
        ELSE IF Len(clean.val) < min_length
        THEN [error |-> "ValidationError", val |-> <<>>]
        ELSE IF DetectPromptInjection(clean.val)
        THEN [error |-> "PromptInjectionDetected", val |-> <<>>]
        ELSE clean

\* validate_topic is called and returns or raises.
ValidateTopicCall(raw, limits) ==
    /\ t_pc = "idle"
    /\ t_topic' = raw
    /\ t_min_length' = limits[1]
    /\ t_max_length' = limits[2]
    /\ LET r == ValidateTopic(raw, limits[1], limits[2])
       IN  /\ t_pc' = IF r.error = "" THEN "returned" ELSE "raised"
           /\ t_result' = r.val
           /\ t_error' = r.error
    /\ UNCHANGED <<settings, gvars, avars, pvars, vvars, dvars, fvars, cvars, wvars,
                   ppvars, xvars>>

\* The caller has taken the outcome; the next topic can be validated.
ValidateTopicDone ==
    /\ t_pc \in {"returned", "raised"}
    /\ t_pc' = "idle"
    /\ t_topic' = <<>>
    /\ t_min_length' = 0
    /\ t_max_length' = 0
    /\ t_result' = <<>>
    /\ t_error' = ""
    /\ UNCHANGED <<settings, gvars, avars, pvars, vvars, dvars, fvars, cvars, wvars,
                   ppvars, xvars>>

NextTopicValidation ==
    \/ t_pc = "idle"
          /\ \E raw \in RawTopics, limits \in LengthLimits :
                ValidateTopicCall(raw, limits)
    \/ ValidateTopicDone

SpecTopicValidation == InitParams /\ [][NextTopicValidation]_vars

\* ------------------------------------------------- router.write_article
\* request.topic: WriteRequest requires at least one character.
WriteTopics == Topics \cup {<<" ">>}

\* The provider's answers to refine_topic within a request: an error, no
\* content, the topic again, a question title, another title, a quoted blank.
WriteRefineOutcomes ==
    {ErrorOutcome("RateLimitError"),
     [kind |-> "ok", err |-> "", content |-> None, blocks |-> <<>>]}
      \cup {[kind |-> "ok", err |-> "", content |-> Some(t), blocks |-> <<>>] :
              t \in {<<"a">>, <<"a", "?">>, <<"b", "?">>, <<"\"", " ", "\"">>}}

\* The providers' answers to try_model within a request: an error, no text
\* (with and without usage), a text; for the fallback an error, no block, a
\* text block.
WriteGenOutcomes(model) ==
    IF model = "GPT"
    THEN {o \in GenOpenAIOutcomes :
            /\ o.kind = "error" => o.err = "RateLimitError"
            /\ o.kind = "ok" => o.content \in {None, Some(<<"a">>)}
            /\ Truthy(o.content) => o.has_usage}
    ELSE {o \in GenAnthropicOutcomes :
            /\ o.kind = "error" => o.err = "RateLimitError"
            /\ \A i \in DOMAIN o.blocks : o.blocks[i].has_text /\ o.blocks[i].text = <<"a">>}

\* The provider's answers to validate_content within a request: an error, no
\* content, or a reply of at most one token.
WriteValidatorOutcomes ==
    {o \in ValidatorOutcomes :
        /\ o.kind = "error" => o.err = "RateLimitError"
        /\ Len(o.text) <= 1}

\* POST /api/write: the input check on request.topic; a topic that passes
\* goes to refine_topic, which runs up to its first provider call.
WriteStart(t) ==
    /\ w_pc = "idle"
    /\ w_topic' = t
    /\ IF Strip(t) = <<>>
       THEN w_pc' = "responded" /\ w_status' = 400 /\ UNCHANGED openai_client
       ELSE w_pc' = "refine" /\ w_status' = 0 /\ openai_client' = "AsyncOpenAI"
    /\ UNCHANGED <<settings, tvars, xvars, ppvars, gvars, avars, pvars, vvars, dvars, fvars, crunvars,
                   w_refined, w_refinements, w_prompt, w_attempt, w_sleeps, w_content,
                   w_validation>>

\* Step 1, refined_topic = await refine_topic(request.topic): one provider
\* call and what follows it up to the next suspension point.  A failed call
\* goes to the backoff sleep; on return write_article checks the title and
\* calls generate_content, which runs up to the provider call of its own
\* refine_topic.
WriteRefine(o) ==
    /\ w_pc = "refine"
    /\ LET r == RefineTopicAttempt(settings, w_topic, w_attempt, o)
       IN  IF r.act = "sleep"
           THEN /\ w_pc' = "refine_sleep"
                /\ w_sleeps' = Append(w_sleeps, r.wait)
                /\ UNCHANGED <<w_refined, w_refinements, w_status, w_attempt>>
           ELSE /\ w_refined' = r.val
                /\ w_refinements' = Append(w_refinements, w_topic)
                /\ w_attempt' = 0
                /\ IF Strip(r.val) = <<>>
                   THEN w_pc' = "responded" /\ w_status' = 500
                   ELSE w_pc' = "generate" /\ w_status' = 0
                /\ UNCHANGED w_sleeps
    /\ UNCHANGED <<settings, tvars, xvars, ppvars, gvars, avars, pvars, vvars, dvars, fvars, cvars,
                   w_topic, w_prompt, w_content, w_validation>>

\* Step 1: the backoff sleep of refine_topic ends and its loop continues.
WriteRefineSleep ==
    /\ w_pc = "refine_sleep"
    /\ w_pc' = "refine"
    /\ w_attempt' = w_attempt + 1
    /\ UNCHANGED <<settings, tvars, xvars, ppvars, gvars, avars, pvars, vvars, dvars, fvars, cvars,
                   w_topic, w_refined, w_refinements, w_prompt, w_status, w_sleeps,
                   w_content, w_validation>>

\* Step 2, generate_content(refined_topic) up to its user prompt:
\* generated_topic = await refine_topic(topic), one provider call and what
\* follows it.  A failed call goes to the backoff sleep; on return the
\* template is filled, the loop logs its start event and awaits try_model.
WriteGeneratePrompt(o) ==
    /\ w_pc = "generate"
    /\ LET r == RefineTopicAttempt(settings, w_refined, w_attempt, o)
       IN  IF r.act = "sleep"
           THEN /\ w_pc' = "generate_refine_sleep"
                /\ w_sleeps' = Append(w_sleeps, r.wait)
                /\ UNCHANGED <<w_refinements, w_prompt, w_attempt, events>>
           ELSE /\ w_pc' = "prompted"
                /\ w_refinements' = Append(w_refinements, w_refined)
                /\ w_prompt' = GeneratedTopic(w_refined, r)
                /\ w_attempt' = 1
                /\ events' = Append(events, StartEvent(settings, 1))
                /\ UNCHANGED w_sleeps
    /\ UNCHANGED <<settings, tvars, xvars, ppvars, grunvars, avars, pvars, vvars, dvars, fvars, cvars,
                   w_topic, w_refined, w_status, w_content, w_validation>>

\* Step 2: the backoff sleep of generate_content's refine_topic ends.
WriteGenerateRefineSleep ==
    /\ w_pc = "generate_refine_sleep"
    /\ w_pc' = "generate"
    /\ w_attempt' = w_attempt + 1
    /\ UNCHANGED <<settings, tvars, xvars, ppvars, gvars, avars, pvars, vvars, dvars, fvars, cvars,
                   w_topic, w_refined, w_refinements, w_prompt, w_status, w_sleeps,
                   w_content, w_validation>>

\* Step 2, one iteration of the generation loop from the completion of
\* try_model's provider call on.  With content, generate_content returns and
\* write_article calls validate_content, which runs up to its provider call;
\* without, the loop goes to its backoff sleep, or, out of attempts, raises
\* and the handler answers 500.
WriteGenerate(o) ==
    /\ w_pc = "prompted"
    /\ LET seq == ModelSequence(settings)
           model == seq[w_attempt]
           r == TryModel(model, o)
       IN  /\ o \in OutcomesFor(model)
           /\ events' = events \o AttemptEvents(settings, w_attempt, o)
           /\ IF Truthy(r.ret)
              THEN /\ w_content' = r.ret
                   /\ w_attempt' = 0
                   /\ IF Strip(r.ret.val) = <<>>
                      THEN w_pc' = "responded" /\ w_status' = 500
                      ELSE w_pc' = "validate" /\ w_status' = 0
                   /\ UNCHANGED w_sleeps
              ELSE IF w_attempt < Len(seq)
              THEN /\ w_pc' = "generate_sleep"
                   /\ w_sleeps' = Append(w_sleeps, GenBackoff(settings, w_attempt))
                   /\ UNCHANGED <<w_content, w_attempt, w_status>>
              ELSE /\ w_pc' = "responded"
                   /\ w_status' = 500
                   /\ UNCHANGED <<w_content, w_attempt, w_sleeps>>
    /\ UNCHANGED <<settings, tvars, xvars, ppvars, grunvars, avars, pvars, vvars, dvars, fvars, cvars,
                   w_topic, w_refined, w_refinements, w_prompt, w_validation>>

\* Step 2: the backoff sleep of the generation loop ends, the loop takes the
\* next entry, logs its start event and awaits try_model.
WriteGenerateSleep ==
    /\ w_pc = "generate_sleep"
    /\ w_pc' = "prompted"
    /\ w_attempt' = w_attempt + 1
    /\ events' = Append(events, StartEvent(settings, w_attempt + 1))
    /\ UNCHANGED <<settings, tvars, xvars, ppvars, grunvars, avars, pvars, vvars, dvars, fvars, cvars,
                   w_topic, w_refined, w_refinements, w_prompt, w_status, w_sleeps,
                   w_content, w_validation>>

\* Step 3, validation = await validate_content(content): one provider call
\* and what follows it.  A failed call or an empty reply goes to the backoff
\* sleep while attempts remain; a report, whatever it holds, is answered with
\* 200, an exception of the parse block with 500.
WriteValidate(o) ==
    /\ w_pc = "validate"
    /\ IF o.kind = "error" \/ IsEmptyResult(o)
       THEN IF ValidatorShouldRetry(w_attempt)
            THEN /\ w_pc' = "validate_sleep"
                 /\ w_sleeps' = Append(w_sleeps, ValidatorBackoff(w_attempt))
                 /\ UNCHANGED <<w_status, w_validation>>
            ELSE /\ w_pc' = "responded"
                 /\ w_status' = 200
                 /\ w_validation' = IF o.kind = "error" THEN CallFailedReport(o.err)
                                    ELSE EmptyReplyReport
                 /\ UNCHANGED w_sleeps
       ELSE LET r == ParseReport(o.text)
            IN  /\ w_pc' = "responded"
                /\ w_status' = IF r.act = "return" THEN 200 ELSE 500
                /\ w_validation' = r.report
                /\ UNCHANGED w_sleeps
    /\ UNCHANGED <<settings, tvars, xvars, ppvars, gvars, avars, pvars, vvars, dvars, fvars, cvars,
                   w_topic, w_refined, w_refinements, w_prompt, w_attempt, w_content>>

\* Step 3: the backoff sleep of validate_content ends and its loop continues.
WriteValidateSleep ==
    /\ w_pc = "validate_sleep"
    /\ w_pc' = "validate"
    /\ w_attempt' = w_attempt + 1
    /\ UNCHANGED <<settings, tvars, xvars, ppvars, gvars, avars, pvars, vvars, dvars, fvars, cvars,
                   w_topic, w_refined, w_refinements, w_prompt, w_status, w_sleeps,
                   w_content, w_validation>>

NextWrite ==
    \/ w_pc = "idle" /\ \E t \in WriteTopics : WriteStart(t)
    \/ w_pc = "refine" /\ \E o \in WriteRefineOutcomes : WriteRefine(o)
    \/ WriteRefineSleep
    \/ w_pc = "generate" /\ \E o \in WriteRefineOutcomes : WriteGeneratePrompt(o)
    \/ WriteGenerateRefineSleep
    \/ w_pc = "prompted"
          /\ \E o \in WriteGenOutcomes(ModelSequence(settings)[w_attempt]) : WriteGenerate(o)
    \/ WriteGenerateSleep
    \/ w_pc = "validate" /\ \E o \in WriteValidatorOutcomes : WriteValidate(o)
    \/ WriteValidateSleep

SpecWrite == Init /\ [][NextWrite]_vars

Next == NextGen \/ NextAdapter \/ NextParams \/ NextValidator \/ NextDensity \/ NextFixer
          \/ NextConcurrent \/ NextWrite \/ NextPostProcess \/ NextExceptions
          \/ NextTopicValidation

Spec == Init /\ [][Next]_vars

\* ======================================================= generate_content
\* The run ended in the terminal error after the whole sequence was tried,
\* with no sleep after the last entry.
TotalFailure ==
    /\ g_pc = "raised"
    /\ g_error.type = "RuntimeError"
    /\ Len(gen_calls) = settings.MAX_RETRIES + 1
    /\ Len(sleeps) = settings.MAX_RETRIES
    /\ ~Truthy(content)

\* C1 (as claimed): when every attempt of the sequence fails, generate_content
\* raises, after exactly MAX_RETRIES+1 attempts, a terminal error whose message
\* names the topic given to generate_content.
C1_ErrorNamesGivenTopic ==
    g_pc = "raised" => TotalFailure /\ Contains(g_error.topic, topic)

\* C1 (amended): when every attempt of the sequence fails, generate_content
\* raises, after exactly MAX_RETRIES+1 attempts and no further retry, a
\* terminal error whose message names the topic the generation prompt was
\* built from: the refined title when refinement produced one, the stripped
\* raw topic when the refiner returned an empty or unchanged title, the raw
\* topic when refinement failed.
C1_ErrorNamesGenerationTopic ==
    /\ g_pc = "raised" =>
          /\ TotalFailure
          /\ g_error.topic = user_prompt
          /\ r_status = "refined" => g_error.topic # Strip(topic)
          /\ r_status = "unchanged" => g_error.topic = Strip(topic)
          /\ r_status \in {"failed", "raised"} => g_error.topic = topic
    /\ (Len(gen_calls) = settings.MAX_RETRIES + 1 /\ ~Truthy(content))
          => g_pc = "raised"

C1_Witness ==
    /\ g_pc = "raised"
    /\ r_status = "refined"
    /\ ~Contains(g_error.topic, topic)

\* C2: the generation loop calls the providers in the fixed order MAX_RETRIES
\* times the primary, then once the fallback: the fallback is never called
\* before all primary attempts failed, never more than once, and an exhausted
\* run made MAX_RETRIES+1 generation calls whatever refinement consumed.
C2_FixedProviderOrder ==
    /\ Len(gen_calls) <= settings.MAX_RETRIES + 1
    /\ \A i \in 1..Len(gen_calls) :
          gen_calls[i] = (IF i <= settings.MAX_RETRIES THEN "GPT" ELSE "Claude")
    /\ Cardinality({i \in 1..Len(gen_calls) : gen_calls[i] = "Claude"}) <= 1
    /\ g_pc = "raised" =>
          Cardinality({i \in 1..Len(gen_calls) : gen_calls[i] = "GPT"})
              = settings.MAX_RETRIES
    /\ (gen_calls # <<>> /\ gen_calls[Len(gen_calls)] = "Claude")
          => Len(sleeps) >= settings.MAX_RETRIES

C2_Witness ==
    /\ g_pc = "raised"
    /\ settings.MAX_RETRIES = 3
    /\ r_calls = 3
    /\ gen_calls = <<"GPT", "GPT", "GPT", "Claude">>

\* C3: the first attempt that returns non-empty content ends the run: that
\* content is what generate_content returns, no later call or sleep follows,
\* and a returned text is never empty or whitespace-only.
C3_FirstContentReturned ==
    /\ Truthy(content) <=> g_pc = "returned"
    /\ g_pc = "returned" =>
          /\ result = content.val
          /\ Strip(result) # <<>>
          /\ Len(gen_calls) = attempt
          /\ Len(sleeps) = attempt - 1

C3_Witness ==
    /\ g_pc = "returned"
    /\ attempt = 2
    /\ settings.MAX_RETRIES = 3
    /\ result = <<"a">>

\* C4: an exception raised by a provider call in a generation attempt is never
\* propagated: the attempt fails softly and the run goes on to the next entry;
\* the only error generate_content raises is the terminal one after the whole
\* sequence.
C4_ProviderErrorsNeverPropagate ==
    /\ g_pc = "raised" => TotalFailure /\ g_error.topic = generated_topic
    /\ g_error.type \in {"", "RuntimeError"}
    /\ (g_last.kind = "error" /\ Len(gen_calls) < settings.MAX_RETRIES + 1)
          => /\ g_pc \in {"sleep", "attempt"}
             /\ Len(sleeps) = Len(gen_calls)

C4_Witness ==
    /\ g_pc = "sleep"
    /\ g_last.kind = "error"
    /\ g_last.err \in NonTransientErrors

\* C5: when topic refinement fails, generate_content goes on with the raw
\* topic unmodified and runs the generation sequence; it fails only if the
\* whole generation sequence fails.
C5_RefinementFailureNotFatal ==
    r_status \in {"failed", "raised"} =>
        /\ generated_topic = topic
        /\ user_prompt = topic
        /\ g_pc \in {"attempt", "sleep", "returned", "raised"}
        /\ g_pc = "raised" => TotalFailure

C5_Witness ==
    /\ r_status = "failed"
    /\ r_calls = settings.MAX_RETRIES
    /\ Strip(topic) # topic
    /\ g_pc = "returned"

\* C6: after the failed attempt with 1-based index i that is not the last
\* entry the run sleeps min(BACKOFF_MIN * 2^(i-1), BACKOFF_MAX); there is no
\* sleep after the last entry or after a success.
C6_BackoffSchedule ==
    /\ \A i \in 1..Len(sleeps) :
          /\ i <= settings.MAX_RETRIES
          /\ sleeps[i] = (IF settings.BACKOFF_MIN * (2 ^ (i - 1)) <= settings.BACKOFF_MAX
                          THEN settings.BACKOFF_MIN * (2 ^ (i - 1))
                          ELSE settings.BACKOFF_MAX)
    /\ g_pc = "sleep" => Len(sleeps) = Len(gen_calls)
    /\ g_pc = "attempt" => Len(sleeps) = Len(gen_calls)
    /\ g_pc \in {"returned", "raised"} => Len(sleeps) = Len(gen_calls) - 1

C6_Witness ==
    /\ g_pc = "raised"
    /\ sleeps = <<1, 2, 2>>

\* ============================================================== complete()
\* The last provider response carried no text, or only whitespace.
BlankCompletion ==
    /\ a_last.kind = "ok"
    /\ (~a_content.some \/ Strip(a_content.val) = <<>>)

\* C7: complete() makes at most MAX_RETRIES provider calls; when every attempt
\* fails with a transient error it raises a terminal error carrying the
\* attempt count and the last cause; it ends only by returning a response or
\* by raising.
C7_BoundedRetriesTerminalError ==
    /\ a_calls <= settings.MAX_RETRIES
    /\ (a_pc = "raised" /\ a_transient = a_calls) =>
          /\ a_calls = settings.MAX_RETRIES
          /\ a_error = [type |-> "Exception", attempts |-> settings.MAX_RETRIES,
                        cause |-> a_last.err]
          /\ a_last.err \in TransientErrors
    /\ a_pc = "returned" => a_response.provider = provider /\ a_error = NoAdapterError
    /\ a_pc = "raised" => a_error.type # "" /\ a_response = NoResponse
    /\ a_pc \notin {"returned", "raised"} => ENABLED NextAdapter

C7_Witness ==
    /\ a_pc = "raised"
    /\ settings.MAX_RETRIES = 3
    /\ a_calls = 3
    /\ a_transient = 3
    /\ a_sleeps = <<1, 2>>

\* C8 (as claimed): an empty or whitespace-only completion is handled like a
\* transient failure: while attempts remain, the adapter goes to its backoff
\* sleep and retries instead of returning or raising.
C8_BlankCompletionRetried ==
    (BlankCompletion /\ a_attempt < settings.MAX_RETRIES - 1) => a_pc = "sleep"

\* C9: a non-transient provider failure makes complete() raise that error at
\* once: no backoff sleep and no further provider call follow it.
C9_NonTransientFailsImmediately ==
    (a_last.kind = "error" /\ a_last.err \in NonTransientErrors) =>
        /\ a_pc = "raised"
        /\ a_error.type = a_last.err
        /\ Len(a_sleeps) = a_calls - 1
        /\ a_attempt = a_calls - 1
        /\ ~ENABLED NextAdapter

C9_Witness ==
    /\ a_pc = "raised"
    /\ a_last.err = "AuthenticationError"
    /\ a_calls = 2
    /\ a_sleeps = <<1>>

\* C10 (as claimed): every CompletionResponse complete() returns has non-empty
\* content, whatever the provider's output.
C10_ResponseContentNonEmpty ==
    a_pc = "returned" => a_response.content # <<>>

\* C11 (as claimed): every CompletionResponse complete() returns has
\* total_tokens = input_tokens + output_tokens and a cost >= 0, for every usage
\* record of the provider, a missing one included.
C11_TokenTotalAndCost ==
    a_pc = "returned" =>
        /\ a_response.total_tokens = a_response.input_tokens + a_response.output_tokens
        /\ a_response.cost >= 0

\* C14: a complete() call that returns has emitted exactly one usage-log event,
\* carrying the model, the input and output token counts and the adapter's
\* component name; a call that has not returned, or that failed, has emitted
\* none.
C14_OneUsageEventPerSuccess ==
    /\ a_pc = "returned" =>
          a_log = << [model |-> a_response.model,
                      input_tokens |-> a_response.input_tokens,
                      output_tokens |-> a_response.output_tokens,
                      component |-> IF provider = "openai" THEN "ai_client.openai"
                                    ELSE "ai_client.anthropic"] >>
    /\ a_pc = "returned" => a_response.model = a_model
    /\ a_pc # "returned" => a_log = <<>>

C14_Witness ==
    /\ a_pc = "returned"
    /\ a_calls = 3
    /\ a_response.output_tokens = 1
    /\ Len(a_log) = 1


\* ================================================= provider-call parameters
\* The identifiers of ModelIds that contain a reasoning-family prefix, letter
\* case aside.
ReasoningFamilyIds == {"o1-mini", "O1-Preview", "o3-mini", "GPT-5-turbo"}

\* C12 (as claimed): every component's is_reasoning_model, the Anthropic
\* adapter's included, answers true for an identifier that contains o1-, o3-
\* or gpt-5 in any letter case.
C12_ReasoningDetectedByEveryAdapter ==
    (p_pc = "built" /\ p_params.model \in ReasoningFamilyIds) => p_reasoning

\* C12 (amended): the answer depends on the component and the identifier
\* alone; the OpenAI adapter, the generator, the topic refiner and the
\* validator answer true for an identifier that contains o1-, o3- or gpt-5 in
\* any letter case, and the Anthropic adapter answers false for every
\* identifier.
C12_ReasoningDetection ==
    p_pc = "built" =>
        /\ (p_component # "anthropic_adapter" /\ p_params.model \in ReasoningFamilyIds)
               => p_reasoning
        /\ p_component = "anthropic_adapter" => ~p_reasoning

C12_Witness ==
    /\ p_pc = "built"
    /\ p_component = "openai_adapter"
    /\ p_params.model = "O1-Preview"
    /\ p_reasoning

\* C13: in the OpenAI adapter, the generator, the topic refiner and the
\* validator, a call for a reasoning model carries max_completion_tokens and
\* neither temperature nor max_tokens, and a call for a standard model
\* carries max_tokens and temperature and no max_completion_tokens.
C13_ReasoningParameterBranch ==
    (p_pc = "built" /\ p_component # "anthropic_adapter") =>
        IF p_params.model \in ReasoningFamilyIds
        THEN /\ "max_completion_tokens" \in p_params.keys
             /\ p_params.max_completion_tokens > 0
             /\ "temperature" \notin p_params.keys
             /\ "max_tokens" \notin p_params.keys
        ELSE /\ {"max_tokens", "temperature"} \subseteq p_params.keys
             /\ "max_completion_tokens" \notin p_params.keys

C13_Witness ==
    /\ p_pc = "built"
    /\ p_component = "validator"
    /\ p_request.model = "o3-mini"
    /\ p_params.max_completion_tokens = 800
    /\ p_params.keys = {"model", "messages", "max_completion_tokens"}

\* C15: the Anthropic call of a request with both a system_prompt and a
\* system-role message carries one system value, the content of a system
\* message and not the system_prompt; no system-role message is in the
\* forwarded list, and the other messages are forwarded in their order, none
\* dropped or repeated.
C15_SystemChannelReconciled ==
    (p_pc = "built" /\ p_component = "anthropic_adapter") =>
        LET msgs == p_request.messages
            sent == p_params.messages
            others == {i \in DOMAIN msgs : msgs[i].role # "system"}
            systems == DOMAIN msgs \ others
            \* the position in msgs of the k-th message that is not a system message
            Pos(k) == CHOOSE i \in others :
                          Cardinality({j \in others : j <= i}) = k
        IN  /\ \A k \in DOMAIN sent : sent[k].role # "system"
            /\ Len(sent) = Cardinality(others)
            /\ \A k \in DOMAIN sent : sent[k] = msgs[Pos(k)]
            /\ (p_request.system_prompt # "" /\ systems # {}) =>
                   /\ "system" \in p_params.keys
                   /\ p_params.system # p_request.system_prompt
                   /\ \E i \in systems : p_params.system = msgs[i].content

C15_Witness ==
    /\ p_pc = "built"
    /\ p_component = "anthropic_adapter"
    /\ p_request.system_prompt = "p"
    /\ p_request.messages = << [role |-> "system", content |-> "m2"],
                               [role |-> "user", content |-> "m1"] >>
    /\ p_params.system = "m2"
    /\ Len(p_params.messages) = 1

\* ======================================================= validate_content
\* C16 (as claimed): validate_content never raises to its caller, whatever
\* the provider does: every run that ends, ends with a report.
C16_ValidatorNeverRaises ==
    v_pc # "raised"

\* A reply holding no JSON object: no whole object, and no pair of braces
\* around blanks.
NoJsonObject(text) ==
    /\ \A i \in DOMAIN text : text[i] \notin ObjectNames
    /\ ~\E i, j \in DOMAIN text :
          /\ i < j
          /\ text[i] = "{"
          /\ text[j] = "}"
          /\ \A k \in (i + 1)..(j - 1) : text[k] = " "

\* C17: a reply with text other than blanks that contains no JSON object
\* gives a report with the three scores 0, has_faq false and exactly one
\* issue, of type parse_error.
C17_NoJsonGivesParseError ==
    (v_last = "text" /\ NoJsonObject(v_result)) =>
        /\ v_pc = "returned"
        /\ v_report.scores = [grammar |-> 0, human |-> 0, seo |-> 0]
        /\ v_report.has_faq = FALSE
        /\ Len(v_report.issues) = 1
        /\ v_report.issues[1].type = "parse_error"

C17_Witness ==
    /\ v_pc = "returned"
    /\ v_last = "text"
    /\ v_result = <<"{", "x", "}">>
    /\ Len(v_report.issues) = 1

\* C18: validate_content calls the provider at most 3 times; the k-th sleep
\* lasts 2^(k-1) seconds and follows the k-th call, for k < 3; an empty or
\* blank k-th reply with k < 3 is retried; the third one is followed by no
\* sleep and by the all-zero report without issues; a reply with text ends
\* the retrying.
C18_ValidatorRetrySchedule ==
    /\ v_calls <= 3
    /\ Len(v_sleeps) <= 2
    /\ \A k \in DOMAIN v_sleeps : v_sleeps[k] = 2 ^ (k - 1)
    /\ (v_last = "empty" /\ v_calls < 3) =>
           /\ v_pc \in {"sleep", "call"}
           /\ Len(v_sleeps) = v_calls
    /\ (v_last = "empty" /\ v_calls = 3) =>
           /\ v_pc = "returned"
           /\ Len(v_sleeps) = 2
           /\ v_report.scores = [grammar |-> 0, human |-> 0, seo |-> 0]
           /\ v_report.has_faq = FALSE
           /\ v_report.issues = <<>>
    /\ v_last = "text" =>
           /\ v_pc \in {"returned", "raised"}
           /\ Len(v_sleeps) = v_calls - 1
           /\ ~ENABLED NextValidator

C18_Witness ==
    /\ v_pc = "returned"
    /\ v_calls = 3
    /\ v_last = "empty"
    /\ v_result = <<" ">>
    /\ v_sleeps = <<1, 2>>

\* C19 (as claimed): every report validate_content returns has its three
\* scores between 0 and 10.
C19_ScoresInRange ==
    v_pc = "returned" =>
        /\ v_report.scores.grammar \in 0..10
        /\ v_report.scores.human \in 0..10
        /\ v_report.scores.seo \in 0..10

\* C20: in a report built from a parsed reply the flat scores equal the
\* structured ones, and suggestions has one entry per issue, in the same
\* order: the issue's message (the issue itself when it is a bare text).
C20_ViewsAgree ==
    (v_pc = "returned" /\ v_report.legacy) =>
        /\ v_report.scores.grammar = v_report.grammar_score
        /\ v_report.scores.human = v_report.human_score
        /\ v_report.scores.seo = v_report.seo_score
        /\ Len(v_report.suggestions) = Len(v_report.issues)
        /\ \A i \in DOMAIN v_report.issues :
               IF v_report.issues[i].is_dict
               THEN v_report.suggestions[i] = v_report.issues[i].message
               ELSE v_report.suggestions[i] = v_report.issues[i].text

C20_Witness ==
    /\ v_pc = "returned"
    /\ v_report.legacy
    /\ v_report.issues = <<BareText("s1"), IssueDict("ai_tone", "m2")>>
    /\ v_report.suggestions = <<"s1", "m2">>
    /\ v_report.scores.grammar = 6

\* ================================================== complete(): backoff
\* C30: in complete() a backoff sleep follows only a transient failure of an
\* attempt that is not the last one; the sleep after the failed attempt k
\* lasts min(BACKOFF_MIN * 2^(k-1), BACKOFF_MAX); no sleep follows the last
\* attempt or a success.
C30_AdapterBackoffSchedule ==
    /\ Len(a_sleeps) <= a_transient
    /\ Len(a_sleeps) <= settings.MAX_RETRIES - 1
    /\ \A k \in DOMAIN a_sleeps :
          LET doubled == settings.BACKOFF_MIN * (2 ^ (k - 1))
          IN  /\ a_sleeps[k] <= doubled
              /\ a_sleeps[k] <= settings.BACKOFF_MAX
              /\ a_sleeps[k] \in {doubled, settings.BACKOFF_MAX}
    /\ a_pc = "sleep" =>
          /\ a_last.kind = "error"
          /\ a_last.err \in TransientErrors
          /\ a_calls < settings.MAX_RETRIES
          /\ Len(a_sleeps) = a_calls
    /\ a_pc \in {"returned", "raised"} => Len(a_sleeps) = a_calls - 1

C30_Witness ==
    /\ a_pc = "returned"
    /\ settings.BACKOFF_MAX = 3
    /\ a_calls = 3
    /\ a_sleeps = <<2, 3>>

\* ============================================================ refine_topic
\* C29 (as claimed): refine_topic never raises, and what it returns is the
\* topic it was given, or a non-empty title that ends in a question mark and
\* differs from the topic.
C29_RefinedTitleIsQuestionOrTopic ==
    r_status # "" =>
        /\ r_status # "raised"
        /\ \/ generated_topic = topic
           \/ /\ generated_topic # <<>>
              /\ generated_topic[Len(generated_topic)] = "?"
              /\ generated_topic # topic

\* ===================================== validate_content: JSON extraction
\* The objects with the five required keys and well-formed suggestions.
CompleteObjectNames ==
    {n \in ObjectNames :
        LET v == ObjectValue(n)
        IN  /\ RequiredKeys \subseteq v.keys
            /\ v.suggestions.is_list
            /\ \A k \in DOMAIN v.suggestions.items :
                   v.suggestions.items[k].is_dict => v.suggestions.items[k].has_message}

\* The reply holds one JSON object, at position i, that has the five required
\* keys; around it there is prose only, which may hold braces but no further
\* object.
OneObjectInProse(text, i) ==
    /\ i \in DOMAIN text
    /\ text[i] \in CompleteObjectNames
    /\ \A j \in DOMAIN text \ {i} : text[j] \notin ObjectNames
    /\ NoJsonObject(SubSeq(text, 1, i - 1))
    /\ NoJsonObject(SubSeq(text, i + 1, Len(text)))

\* C21 (as claimed): when the reply holds a well-formed JSON object with the
\* five required keys, wrapped in prose that may itself hold braces before or
\* after the object, the report carries that object's scores, has_faq and
\* issues.
C21_FirstBalancedObjectExtracted ==
    \A i \in DOMAIN v_result :
        (v_last = "text" /\ OneObjectInProse(v_result, i)) =>
            LET v == ObjectValue(v_result[i])
            IN  /\ v_pc = "returned"
                /\ v_report.scores = [grammar |-> v.grammar_score,
                                      human |-> v.human_score,
                                      seo |-> v.seo_score]
                /\ v_report.has_faq = v.has_faq
                /\ v_report.issues = v.suggestions.items

\* The positions of s where p occurs, letters compared without case.
MatchStarts(s, p) ==
    {i \in 1..(Len(s) - Len(p) + 1) :
        LowerText(SubSeq(s, i, i + Len(p) - 1)) = LowerText(p)}

\* The most occurrences of p in s no two of which share a character.
Occurrences(s, p) ==
    LET disjoint == {S \in SUBSET MatchStarts(s, p) :
                        \A i, j \in S : i < j => i + Len(p) <= j}
    IN  CHOOSE n \in 0..Len(s) :
            /\ \E S \in disjoint : Cardinality(S) = n
            /\ \A S \in disjoint : Cardinality(S) <= n

\* The words of s: one for every character that ends a run of characters
\* other than whitespace.
WordsLeft(s) ==
    Cardinality({i \in DOMAIN s :
                    s[i] \notin Blanks /\ (i = Len(s) \/ s[i + 1] \in Blanks)})

\* C27: the keyword density is 100 times the case-insensitive number of
\* occurrences of the phrase divided by the number of words left after code
\* blocks and markdown punctuation are removed, to two decimals; it is 0 when
\* the phrase or the content is empty or no word is left; a two-word phrase
\* that occurs exactly twice among 100 words gives 2.00.
C27_KeywordDensity ==
    d_pc = "done" =>
        LET left == CleanText(d_content)
            words == WordsLeft(left)
            hits == Occurrences(left, d_keyphrase)
            diff == 10000 * hits - d_density * words
        IN  /\ (d_keyphrase = <<>> \/ d_content = <<>> \/ words = 0) => d_density = 0
            /\ (d_keyphrase # <<>> /\ d_content # <<>> /\ words > 0) =>
                   /\ 2 * diff <= words
                   /\ -(2 * diff) <= words
            /\ (d_content = HundredWords /\ d_keyphrase = <<"a", " ", "b">>) =>
                   (words = 100 /\ hits = 2 /\ d_density = 200)

C27_Witness ==
    /\ d_pc = "done"
    /\ d_content = HundredWords
    /\ d_keyphrase = <<"a", " ", "b">>
    /\ d_density = 200

\* The flags the legacy heuristics derive from a report with numeric scores.
LegacyFlags(report) ==
    (IF ~report.has_faq THEN {"faq_missing"} ELSE {})
      \cup (IF report.grammar.val < 7 THEN {"grammar_improvement"} ELSE {})
      \cup (IF report.human.val < 7 THEN {"humanize_content"} ELSE {})
      \cup (IF report.seo.val < 7 THEN {"seo_optimization"} ELSE {})

\* C25: the fix needs are the types of the report's issues in order, plus
\* faq_missing when has_faq is false, plus grammar_improvement,
\* humanize_content and seo_optimization for each score below 7 (and for no
\* score of 7 or more), and no category is in the list twice.
C25_FixNeedsExact ==
    f_pc \in {"call", "returned"} =>
        LET types == IssueTypes(f_report.issues)
        IN  /\ Len(f_needs) >= Len(types)
            /\ SubSeq(f_needs, 1, Len(types)) = types
            /\ {f_needs[k] : k \in DOMAIN f_needs}
                  = {types[k] : k \in DOMAIN types} \cup LegacyFlags(f_report)
            /\ \A i, j \in DOMAIN f_needs : i # j => f_needs[i] # f_needs[j]

\* C22: for a report with has_faq true and the three scores 8 or more, in the
\* structured view, the flat view or both, with or without listed issues,
\* fix_content returns the content it was given.
C22_GoodReportLeavesContent ==
    (/\ f_pc \in {"returned", "raised"}
     /\ f_report.has_faq
     /\ ~f_report.grammar.null /\ f_report.grammar.val >= 8
     /\ f_report.human.val >= 8 /\ f_report.seo.val >= 8)
        => (f_pc = "returned" /\ f_result.fixed_content = f_content)

\* C23: with no fix needs and a grammar score of 8 or more fix_content makes
\* no provider call and returns the content unchanged with the single
\* no-fix-needed entry; in every other case it makes exactly one call.
C23_ShortCircuitOrOneCall ==
    LET short == /\ f_needs = <<>>
                 /\ ~f_report.grammar.null
                 /\ f_report.grammar.val >= 8
    IN  /\ f_pc = "call" => ~short
        /\ f_pc = "returned" =>
              IF short
              THEN /\ f_calls = 0
                   /\ f_result.fixed_content = f_content
                   /\ f_result.fix_summary = <<"no_fix_needed">>
              ELSE f_calls = 1

\* C24: fix_content never raises, and when the provider call raises or gives
\* an empty text it returns the original content, added_FAQ false and a
\* summary with a failure note.
C24_FixNeverRaises ==
    /\ f_pc # "raised"
    /\ f_error = ""
    /\ (/\ f_pc = "returned"
        /\ f_calls = 1
        /\ \/ f_last.kind = "error"
           \/ ~f_last.content.some
           \/ StripLines(f_last.content.val) = <<>>)
          => /\ f_result.fixed_content = f_content
             /\ ~f_result.added_FAQ
             /\ \E k \in DOMAIN f_result.fix_summary :
                    f_result.fix_summary[k] \in {"fix_failed", "empty_response"}

\* C26: on every return of fix_content added_FAQ is true exactly when the
\* report said has_faq false and the returned content holds an FAQ heading;
\* it is false whenever the returned content is the input content.
C26_AddedFaqMeansAdded ==
    f_pc = "returned" =>
        /\ f_result.added_FAQ
              <=> (~f_report.has_faq /\ HasFaqHeading(f_result.fixed_content))
        /\ f_result.fixed_content = f_content => ~f_result.added_FAQ

\* A run alone, stated from its provider responses p in order.  An outcome
\* the loop retries after is Bad; a loop makes at most limit calls, each but
\* the last a retried one.
LoopAlone(p, Bad(_, _), limit) ==
    /\ Len(p) <= limit
    /\ \A k \in 1..(Len(p) - 1) : Bad(k, p[k])

\* The loop is over: its last response was not retried, or was the last allowed.
LoopOver(p, Bad(_, _), limit) ==
    /\ Len(p) >= 1
    /\ ~Bad(Len(p), p[Len(p)]) \/ Len(p) = limit

\* The sleeps of the loop alone: one after every retried call that is not
\* the last allowed, the i-th of them Wait(i) long.
SleepsAlone(p, Bad(_, _), limit, Wait(_)) ==
    [i \in 1..Cardinality({k \in 1..Len(p) : Bad(k, p[k]) /\ k < limit}) |-> Wait(i)]

\* The doubling wait of refine_topic, the generation loop and complete().
CappedWait(i) == Min(settings.BACKOFF_MIN * (2 ^ (i - 1)), settings.BACKOFF_MAX)

\* The wait of validate_content.
ValidatorWait(i) == 2 ^ (i - 1)

\* refine_topic retries after an exception of the call.
RefineRetried(k, o) == o.kind = "error"

\* What refine_topic returns for user_topic when its last response was o.
RefinedAlone(user_topic, o) ==
    IF o.kind = "error"
    THEN user_topic
    ELSE LET title == RemoveQuotes(Strip(IF o.content.some THEN o.content.val ELSE <<>>))
         IN  IF title = <<>> \/ Strip(title) = Strip(user_topic)
             THEN Strip(user_topic)
             ELSE title

\* The text try_model hands back for the response o of the k-th entry of the
\* model sequence: <<>> for none.
ProducedAlone(k, o) ==
    IF o.kind = "error"
    THEN <<>>
    ELSE IF k <= settings.MAX_RETRIES
    THEN IF o.content.some THEN Strip(o.content.val) ELSE <<>>
    ELSE IF o.blocks # <<>> /\ o.blocks[1].has_text THEN Strip(o.blocks[1].text) ELSE <<>>

\* The generation loop goes on after a response without text.
GenerateRetried(k, o) == ProducedAlone(k, o) = <<>>

\* validate_content retries after an exception and after an empty reply.
ValidateRetried(k, o) == o.kind = "error" \/ ~o.has_content \/ Strip(o.text) = <<>>

\* complete() retries after a transient error.
CompleteRetried(k, o) == o.kind = "error" /\ o.err \in TransientErrors

\* The number of responses refine_topic takes from p: up to the first that
\* ends its loop (0 while the loop runs).
RefineCalls(p) ==
    LET ends == {k \in 1..Len(p) : ~RefineRetried(k, p[k]) \/ k = settings.MAX_RETRIES}
    IN  IF ends = {} THEN 0 ELSE CHOOSE k \in ends : \A j \in ends : k <= j

\* Run r is where, and has what, the same coroutine has when it runs alone
\* and the provider answers it with c_outcomes[r].
RunAsAlone(r) ==
    LET p == c_outcomes[r]
        n == Len(p)
        max == settings.MAX_RETRIES
        over == c_pc[r] \in {"returned", "raised"}
    IN  CASE c_kind[r] = "refine_topic" ->
               /\ LoopAlone(p, RefineRetried, max)
               /\ c_sleeps[r] = SleepsAlone(p, RefineRetried, max, CappedWait)
               /\ (c_pc[r] = "returned") <=> LoopOver(p, RefineRetried, max)
               /\ c_pc[r] # "raised"
               /\ c_pc[r] = "returned" => c_result[r].text = RefinedAlone(c_topic[r], p[n])
          [] c_kind[r] = "generate_content" ->
               LET nr == RefineCalls(p)
                   p1 == IF nr = 0 THEN p ELSE SubSeq(p, 1, nr)
                   p2 == IF nr = 0 THEN <<>> ELSE SubSeq(p, nr + 1, n)
                   m == Len(p2)
               IN  /\ LoopAlone(p1, RefineRetried, max)
                   /\ LoopAlone(p2, GenerateRetried, max + 1)
                   /\ c_sleeps[r] = SleepsAlone(p1, RefineRetried, max, CappedWait)
                                      \o SleepsAlone(p2, GenerateRetried, max + 1, CappedWait)
                   /\ nr > 0 => c_title[r] = RefinedAlone(c_topic[r], p[nr])
                   /\ over <=> LoopOver(p2, GenerateRetried, max + 1)
                   /\ over => IF GenerateRetried(m, p2[m])
                              THEN /\ c_pc[r] = "raised"
                                   /\ c_result[r].error.type = "RuntimeError"
                              ELSE /\ c_pc[r] = "returned"
                                   /\ c_result[r].text = ProducedAlone(m, p2[m])
          [] c_kind[r] = "validate_content" ->
               /\ LoopAlone(p, ValidateRetried, ValidatorMaxRetries)
               /\ c_sleeps[r] = SleepsAlone(p, ValidateRetried, ValidatorMaxRetries,
                                            ValidatorWait)
               /\ over <=> LoopOver(p, ValidateRetried, ValidatorMaxRetries)
               /\ over =>
                    IF p[n].kind = "error"
                    THEN c_pc[r] = "returned" /\ c_result[r].report = CallFailedReport(p[n].err)
                    ELSE IF ValidateRetried(n, p[n])
                    THEN c_pc[r] = "returned" /\ c_result[r].report = EmptyReplyReport
                    ELSE LET parsed == ParseReport(p[n].text)
                         IN  /\ (c_pc[r] = "returned") <=> (parsed.act = "return")
                             /\ c_result[r].report = parsed.report
          [] c_kind[r] = "fix_content" ->
               LET skip == c_report[r].grammar.val >= 8
               IN  /\ n <= 1
                   /\ c_sleeps[r] = <<>>
                   /\ c_pc[r] = "returned" <=> (skip \/ n = 1)
                   /\ c_pc[r] # "raised"
                   /\ skip => n = 0
                   /\ c_pc[r] = "returned" =>
                        c_result[r].fix.fixed_content =
                           IF n = 1 /\ p[1].kind = "ok" THEN p[1].content.val
                           ELSE c_topic[r]
          [] OTHER ->
               /\ LoopAlone(p, CompleteRetried, max)
               /\ c_sleeps[r] = SleepsAlone(p, CompleteRetried, max, CappedWait)
               /\ over <=> LoopOver(p, CompleteRetried, max)
               /\ over => IF p[n].kind = "ok"
                          THEN /\ c_pc[r] = "returned"
                               /\ c_result[r].resp.content = p[n].content.val
                          ELSE /\ c_pc[r] = "raised"
                               /\ c_result[r].error.cause =
                                     IF CompleteRetried(n, p[n]) THEN p[n].err ELSE ""

\* C28: when pipeline runs (generate_content, refine_topic, validate_content,
\* fix_content, an adapter's complete) execute concurrently and interleave at
\* their provider calls and backoff sleeps, each run's result, its sleeps and
\* its sequence of provider calls are those of the same run alone with the
\* same provider responses; the one module variable a run writes, the lazily
\* created client of refine_topic, is set whenever a run is about to use it.
C28_RunsAreIndependent ==
    \A r \in Runs :
        /\ c_pc[r] # "idle" => RunAsAlone(r)
        /\ c_pc[r] = "refine" => openai_client = "AsyncOpenAI"

C28_Witness ==
    /\ c_kind[1] = "generate_content"
    /\ c_pc[1] = "sleep"
    /\ Len(c_sleeps[1]) = 3
    /\ c_kind[2] = "validate_content"
    /\ c_pc[2] = "returned"
    /\ Len(c_outcomes[2]) = 3
    /\ c_sleeps[2] = <<1, 2>>

\* C34: every degraded report validate_content returns (after the last
\* empty reply, after the last failed call, for a reply without JSON, with
\* missing keys or with JSON that does not parse) has the three scores 0,
\* has_faq false and exactly one synthetic issue describing the failure.
C34_DegradedReportHasOneIssue ==
    (v_pc = "returned" /\ ~v_report.legacy) =>
        /\ v_report.scores = [grammar |-> 0, human |-> 0, seo |-> 0]
        /\ v_report.has_faq = FALSE
        /\ Len(v_report.issues) = 1
        /\ v_report.issues[1].is_dict
        /\ v_report.issues[1].type \in {"parse_error", "validation_error"}

\* What C39 says of every refine_topic run but for the value returned: at
\* most MAX_RETRIES provider calls; the k-th sleep lasts
\* min(BACKOFF_MIN * 2^(k-1), BACKOFF_MAX) and follows the k-th call, which
\* failed; no sleep follows the last call; the topic comes back unmodified
\* once the last attempt has failed.
RefineRetrySchedule ==
    /\ r_calls <= settings.MAX_RETRIES
    /\ Len(r_sleeps) <= settings.MAX_RETRIES - 1
    /\ \A k \in DOMAIN r_sleeps :
          LET doubled == settings.BACKOFF_MIN * (2 ^ (k - 1))
          IN  r_sleeps[k] = (IF doubled <= settings.BACKOFF_MAX THEN doubled
                             ELSE settings.BACKOFF_MAX)
    /\ g_pc = "refine_sleep" => (Len(r_sleeps) = r_calls /\ r_calls < settings.MAX_RETRIES)
    /\ g_pc = "refine" => Len(r_sleeps) = r_calls
    /\ r_status # "" => Len(r_sleeps) = r_calls - 1
    /\ r_status = "failed" => (r_calls = settings.MAX_RETRIES /\ generated_topic = topic)

\* C39 (as claimed): the retry schedule, and an empty or unchanged title
\* gives back the original topic at once.
C39_UnchangedTitleReturnsTopic ==
    /\ RefineRetrySchedule
    /\ r_status = "unchanged" => generated_topic = topic

\* C39 (amended): the retry schedule, and an empty or unchanged title gives
\* back the topic without its surrounding whitespace, at once.
C39_RefineRetrySchedule ==
    /\ RefineRetrySchedule
    /\ r_status = "unchanged" => generated_topic = Strip(topic)

C39_Witness ==
    /\ r_status = "unchanged"
    /\ r_sleeps = <<1, 2>>
    /\ settings.BACKOFF_MAX = 2
    /\ topic = <<" ", "a">>
    /\ generated_topic = <<"a">>

StartStatuses == {"START", "RETRY_START"}
OutcomeStatuses == {"SUCCESS", "RETRY_SUCCESS", "FAIL", "RETRY_FAIL"}

\* The start and outcome events of the log, in order.
AttemptEventsOf(log) ==
    LET idx == {i \in 1..Len(log) : log[i].status \in StartStatuses \cup OutcomeStatuses}
    IN  [k \in 1..Cardinality(idx) |->
            log[CHOOSE i \in idx : Cardinality({j \in idx : j <= i}) = k]]

\* C31: every generation attempt logs one start event and then, once its
\* provider call is over, one outcome event, whatever the provider did;
\* TOTAL_FAIL is logged once, last, exactly when every attempt failed.
C31_OneStartOneOutcomePerAttempt ==
    LET ev == AttemptEventsOf(events)
        totals == {i \in 1..Len(events) : events[i].status = "TOTAL_FAIL"}
        done == Len(gen_calls)
        begun == IF g_pc = "attempt" THEN done + 1 ELSE done
    IN  /\ Len(ev) = done + begun
        /\ \A k \in 1..begun :
              /\ ev[2 * k - 1].status \in StartStatuses
              /\ ev[2 * k - 1].model = ModelSequence(settings)[k]
        /\ \A k \in 1..done :
              /\ ev[2 * k].status \in OutcomeStatuses
              /\ ev[2 * k].model = gen_calls[k]
        /\ totals = IF g_pc = "raised" THEN {Len(events)} ELSE {}

\* C38: when every awaited call and sleep completes, a started run of
\* generate_content ends, with content returned or the terminal error raised,
\* after at most MAX_RETRIES refinement calls and MAX_RETRIES + 1 generation
\* calls.
C38_GenerateContentTerminates ==
    /\ [](r_calls <= settings.MAX_RETRIES
            /\ Len(gen_calls) <= settings.MAX_RETRIES + 1)
    /\ (g_pc # "idle") ~> (g_pc \in {"returned", "raised"})

\* The longest run: every refinement call and every generation call failed.
C38_Witness ==
    /\ g_pc = "raised"
    /\ settings.MAX_RETRIES = 3
    /\ r_calls = 3
    /\ Len(gen_calls) = 4
    /\ Len(sleeps) = 3

\* C36: for a standard model an adapter sends the request's temperature and
\* max_tokens as given, 0 included, and the configured defaults only for a
\* field the request leaves unset.
C36_ExplicitValuesForwarded ==
    (p_pc = "built" /\ p_component \in {"openai_adapter", "anthropic_adapter"}
        /\ ~p_reasoning) =>
        /\ p_params.temperature =
              IF p_request.temperature.some THEN p_request.temperature.val
              ELSE DEFAULT_TEMPERATURE
        /\ p_params.max_tokens =
              IF p_request.max_tokens.some THEN p_request.max_tokens.val
              ELSE DEFAULT_MAX_TOKENS

\* C35: a model identifier that equals a key of the adapter's cost table is
\* priced with the rates of that key, never with those of a key that is a
\* substring of the identifier.
C35_CostUsesOwnEntry ==
    a_pc = "returned" =>
        \A i \in 1..Len(CostTable(provider)) :
            CostTable(provider)[i].key = a_model =>
                a_response.cost =
                    a_response.input_tokens * CostTable(provider)[i].input
                      + a_response.output_tokens * CostTable(provider)[i].output

\* C37: within one /api/write request refine_topic runs once, on the
\* request's topic, and the generation prompt is built from the title that
\* run returned.
C37_RefinedOnce ==
    w_pc = "prompted" =>
        /\ w_refinements = <<w_topic>>
        /\ w_prompt = w_refined

\* C33: the text post_process_content returns has no two spaces in a row, no
\* three newlines in a row and no line that ends in whitespace, and
\* post-processing it again changes nothing.
C33_PostProcessNormalises ==
    pp_pc = "done" =>
        /\ \A i \in 1..(Len(pp_result) - 1) :
              ~(pp_result[i] = " " /\ pp_result[i + 1] = " ")
        /\ \A i \in 1..(Len(pp_result) - 2) :
              ~(/\ pp_result[i] = Newline
                /\ pp_result[i + 1] = Newline
                /\ pp_result[i + 2] = Newline)
        /\ \A i \in 1..Len(pp_result) :
              pp_result[i] \in Whitespace =>
                  (i < Len(pp_result) /\ pp_result[i + 1] # Newline)
        /\ PostProcessContent(pp_result) = pp_result

\* The lookup walking up to the base class when the class has no entry.
StatusCodeByAncestor(class) ==
    LET RECURSIVE Walk(_)
        Walk(c) == IF c \in DOMAIN EXCEPTION_STATUS_MAP THEN EXCEPTION_STATUS_MAP[c]
                   ELSE IF c \in ExceptionClasses THEN Walk(ExceptionBases[c])
                   ELSE 500
    IN  Walk(class)

\* C40: the HTTP status of a converted exception is the one registered for
\* its class or, when the class has no entry, for its nearest registered
\* ancestor: 503 for an unregistered provider error, 403 for an unregistered
\* security error.
C40_StatusOfNearestRegisteredClass ==
    x_pc = "done" => x_http.status_code = StatusCodeByAncestor(x_exc.class)

\* C32: validate_topic raises ValidationError (empty, too short, too long) or
\* PromptInjectionDetected (a pattern matches), or returns the sanitized
\* topic; a returned topic is between min_length and max_length long, holds
\* no control character and matches no injection pattern.
C32_ValidatedTopic ==
    /\ t_pc = "raised" =>
          /\ t_error \in {"ValidationError", "PromptInjectionDetected"}
          /\ t_error = "PromptInjectionDetected" =>
                MatchesInjectionPattern(RemoveControlChars(Strip(t_topic)))
          /\ t_error = "ValidationError" =>
                LET n == Len(RemoveControlChars(Strip(t_topic)))
                IN  n = 0 \/ n < t_min_length \/ n > t_max_length
    /\ t_pc = "returned" =>
          /\ t_error = ""
          /\ t_result = RemoveControlChars(Strip(t_topic))
          /\ t_min_length <= Len(t_result) /\ Len(t_result) <= t_max_length
          /\ \A i \in DOMAIN t_result : t_result[i] # Nul
          /\ ~MatchesInjectionPattern(t_result)

\* A topic given with a leading space and a control character was returned
\* without them.
C32_Witness ==
    /\ t_pc = "returned"
    /\ t_topic = <<" ", "a", Nul, "<", "|">>
    /\ t_min_length = 3
    /\ t_result = <<"a", "<", "|">>

====
